---------------------------- MODULE Spec2Model ----------------------------
(***************************************************************************)
(* Transactional core of the clinic management API (Go service over        *)
(* PostgreSQL): clinics with their bank accounts, dentists, and the        *)
(* time-bounded clinic<->dentist affiliations.                             *)
(*                                                                         *)
(* Every use-case of internal/service runs on its own worker.  One action  *)
(* of the model is one SQL statement of a use-case together with the Go    *)
(* code around it (up to the next statement or the return).  The store is  *)
(* PostgreSQL at its default isolation level READ COMMITTED                *)
(* (db.BeginTx(ctx, nil)):                                                 *)
(*   - a statement reads the committed rows plus its own transaction's     *)
(*     writes;                                                             *)
(*   - UPDATE and SELECT ... FOR UPDATE take row locks held until the      *)
(*     transaction ends; a statement that meets a row locked by another    *)
(*     transaction waits, then re-checks its WHERE clause on the new       *)
(*     version of that row;                                                *)
(*   - an INSERT whose unique key collides with a row another open         *)
(*     transaction wrote waits for that transaction, then raises 23505 if  *)
(*     the row is there;                                                   *)
(*   - an INSERT takes FOR KEY SHARE on the rows its foreign keys name,    *)
(*     which conflicts with FOR UPDATE only;                               *)
(*   - after any statement error the transaction is failed: every later    *)
(*     statement raises 25P02 until the rollback;                          *)
(*   - a cycle of waiting transactions is broken by the deadlock detector, *)
(*     which fails one statement of the cycle with 40P01.                  *)
(***************************************************************************)
EXTENDS Integers, Sequences, FiniteSets, TLC

NULL == "NULL"

\* A nullable value that is not text: a nil pointer or slice, a NULL timestamp.
Nil == [valid |-> FALSE]
Some(v) == [valid |-> TRUE, value |-> v]

\* ------------------------------------------------------------------ bounds

\* Use-case calls started in one behaviour.
MaxOps == 2
\* Use-case calls a client of the HTTP API gets through to, after which it
\* sends no further request.
MaxRequests == 1
\* Longest bank_accounts / bank_account_ids_to_remove list of a request.
MaxList == 2
\* List calls of the reading client in one behaviour.
MaxPages == 2

\* Concurrent request workers (one in-flight use-case each).
Workers == {1, 2}

\* ------------------------------------------------- strings and validation

Digits == <<"0", "1", "2", "3", "4", "5", "6", "7", "8", "9">>
Letters == <<"A", "B", "C", "D", "E", "F", "G", "H", "I", "J", "K", "L", "M",
             "N", "O", "P", "Q", "R", "S", "T", "U", "V", "W", "X", "Y", "Z">>
LowerLetters == <<"a", "b", "c", "d", "e", "f", "g", "h", "i", "j", "k", "l", "m",
                  "n", "o", "p", "q", "r", "s", "t", "u", "v", "w", "x", "y", "z">>

Range(s) == {s[i] : i \in DOMAIN s}
IndexOf(s, c) == CHOOSE i \in DOMAIN s : s[i] = c

IsDigit(c) == c \in Range(Digits)
IsAlnum(c) == c \in Range(Digits) \cup Range(Letters) \cup Range(LowerLetters)
ToUpperChar(c) == IF c \in Range(LowerLetters) THEN Letters[IndexOf(LowerLetters, c)] ELSE c

RECURSIVE TrimLeft(_)
TrimLeft(s) == IF s # <<>> /\ Head(s) = " " THEN TrimLeft(Tail(s)) ELSE s
RECURSIVE TrimRight(_)
TrimRight(s) == IF s # <<>> /\ s[Len(s)] = " " THEN TrimRight(SubSeq(s, 1, Len(s) - 1)) ELSE s
\* strings.TrimSpace on a character sequence.
TrimSpaceSeq(s) == TrimRight(TrimLeft(s))

\* nonDigits.ReplaceAllString(raw, "")
NormalizeCPF(raw) == SelectSeq(raw, IsDigit)

\* A variant that keeps the digits only, as NormalizeCPF does.
NormalizeCNPJ_DigitsOnly(raw) == SelectSeq(raw, IsDigit)

\* strings.ToUpper(nonAlphanumeric.ReplaceAllString(strings.TrimSpace(raw), ""))
NormalizeCNPJ(raw) ==
    LET cleaned == SelectSeq(TrimSpaceSeq(raw), IsAlnum)
    IN  [i \in DOMAIN cleaned |-> ToUpperChar(cleaned[i])]

\* Value of a tax-id character: its ASCII code minus 48.
CharVal(c) == IF IsDigit(c) THEN IndexOf(Digits, c) - 1 ELSE IndexOf(Letters, c) + 16

RECURSIVE WeightedSum(_, _, _)
WeightedSum(s, weights, n) ==
    IF n = 0 THEN 0 ELSE CharVal(s[n]) * weights[n] + WeightedSum(s, weights, n - 1)

CPFDigit(s, n) ==
    LET weights == [i \in 1..n |-> n + 2 - i]
        m == (WeightedSum(s, weights, n) * 10) % 11
    IN  IF m = 10 THEN 0 ELSE m

\* brdoc CPF validation: 11 digits, not all equal, both check digits right.
ValidateCPF(cpf) ==
    LET s == SelectSeq(cpf, IsDigit)
    IN  /\ Len(s) = 11
        /\ \E i \in 2..11 : s[i] # s[1]
        /\ CharVal(s[10]) = CPFDigit(s, 9)
        /\ CharVal(s[11]) = CPFDigit(s, 10)

CNPJWeights1 == <<5, 4, 3, 2, 9, 8, 7, 6, 5, 4, 3, 2>>
CNPJWeights2 == <<6, 5, 4, 3, 2, 9, 8, 7, 6, 5, 4, 3, 2>>

CNPJDigit(s, weights) ==
    LET m == WeightedSum(s, weights, Len(weights)) % 11
    IN  IF m < 2 THEN 0 ELSE 11 - m

\* What brdoc validates: the letters and digits of its argument, in upper
\* case (it accepts "12.abc.345/01de-35").
CleanCNPJ(cnpj) ==
    LET cleaned == SelectSeq(cnpj, IsAlnum)
    IN  [i \in DOMAIN cleaned |-> ToUpperChar(cleaned[i])]

\* brdoc CNPJ validation (numeric and alphanumeric): 14 characters, the
\* last two are the check digits.
ValidateCNPJ(cnpj) ==
    LET s == CleanCNPJ(cnpj)
    IN  /\ Len(s) = 14
        /\ \E i \in 2..14 : s[i] # s[1]
        /\ IsDigit(s[13]) /\ IsDigit(s[14])
        /\ CharVal(s[13]) = CNPJDigit(s, CNPJWeights1)
        /\ CharVal(s[14]) = CNPJDigit(s, CNPJWeights2)

\* Free-text request values are drawn from these samples.
BlankStrings == {"", "  "}
TrimSpace(s) ==
    CASE s \in BlankStrings -> ""
      [] s = " Acme Dental " -> "Acme Dental"
      [] s = " A@Acme.io " -> "A@Acme.io"
      [] OTHER -> s

\* strings.ToLower and SQL lower() on the samples.
ToLower(s) == IF s = "A@Acme.io" THEN "a@acme.io" ELSE s

\* len(password): the bytes of a sample password.
len(s) ==
    CASE s = "short" -> 5
      [] s = "" -> 0
      [] s = "  " -> 2
      [] OTHER -> 10

\* Two names of one repeated two-byte character, 255 and 256 characters long,
\* and the number of characters of a sample.
Name255 == "255 x a-acute"
Name256 == "256 x a-acute"
CharacterCount(s) ==
    CASE s = Name255 -> 255
      [] s = Name256 -> 256
      [] s = " Acme Dental " -> 13
      [] s = "  " -> 2
      [] s = "" -> 0
      [] OTHER -> 12

\* mail.ParseAddress accepts it.
ValidateEmail(email) == TrimSpace(email) \in {"a@acme.io", "b@acme.io", "A@Acme.io"}

\* optionalString: nil and blank become SQL NULL, anything else is trimmed.
optionalString(value) ==
    IF value = NULL THEN NULL
    ELSE IF TrimSpace(value) = "" THEN NULL ELSE TrimSpace(value)

\* COALESCE(narg, column)
Coalesce(narg, column) == IF narg # NULL THEN narg ELSE column

\* ---------------------------------------------------------------- errors

ErrValidation == "Validation"
ErrNotFound == "NotFound"
ErrConflict == "Conflict"
ErrUnauthorized == "Unauthorized"
\* Storage errors as the driver reports them.
SqlErrNoRows == "sql.ErrNoRows"
PgUniqueViolation == "23505"
PgForeignKeyViolation == "23503"
PgInFailedTransaction == "25P02"
PgDeadlockDetected == "40P01"

DomainErrors == {ErrValidation, ErrNotFound, ErrConflict}

\* A variant that takes no error for a unique violation.
isUniqueConstraintError_Never(err) == FALSE

isUniqueConstraintError(err) == err = PgUniqueViolation
isForeignKeyConstraintError(err) == err = PgForeignKeyViolation

\* A variant that reads "no rows" as NotFound.
mapDatabaseError_NoRowsIsNotFound(err) ==
    IF isUniqueConstraintError(err) THEN ErrConflict
    ELSE IF isForeignKeyConstraintError(err) THEN ErrValidation
    ELSE IF err = SqlErrNoRows THEN ErrNotFound
    ELSE err

mapDatabaseError(err) ==
    IF isUniqueConstraintError(err) THEN ErrConflict
    ELSE IF isForeignKeyConstraintError(err) THEN ErrValidation
    ELSE err


\* ------------------------------------------------------- sample requests

Chars_CNPJ_A == <<"0", "4", ".", "2", "5", "2", ".", "0", "1", "1", "/", "0", "0", "0", "1", "-", "1", "0">>
Chars_CNPJ_B == <<"4", "3", "5", "4", "2", "3", "3", "8", "0", "0", "0", "1", "8", "8">>
Chars_CPF_A == <<"1", "2", "3", ".", "4", "5", "6", ".", "7", "8", "9", "-", "0", "9">>
Chars_CPF_A_plain == <<"1", "2", "3", "4", "5", "6", "7", "8", "9", "0", "9">>
Chars_CPF_B == <<"5", "2", "9", "9", "8", "2", "2", "4", "7", "2", "5">>
Chars_short == <<"1", "2", "3">>
Chars_CNPJ_C == <<"1", "1", "2", "2", "2", "3", "3", "3", "0", "0", "0", "1", "8", "1">>
Chars_CPF_C == <<"1", "1", "1", "4", "4", "4", "7", "7", "7", "3", "5">>

Acc1 == [bank_code |-> "001", branch_number |-> "1234", account_number |-> "998877"]
Acc2 == [bank_code |-> "237", branch_number |-> "0001", account_number |-> "55443"]
AccBlank == [bank_code |-> "  ", branch_number |-> "1234", account_number |-> "998877"]

\* A well-formed UUIDv7 that names no row, and a string that is no UUIDv7.
UnknownID == 99
BadID == 0
IsUUIDv7(id) == id # BadID

\* ------------------------------------------------------------------ state

VARIABLES
    db,      \* committed rows: table name -> (primary key -> row)
    tx,      \* worker -> its open transaction (status, writes, row locks)
    frame,   \* worker -> the running use-case: position, arguments, locals
    result,  \* worker -> what its last finished use-case returned
    nextID,  \* uuid.NewV7(): the next time-ordered identifier
    clock,   \* time.Now() / CURRENT_TIMESTAMP, advanced by every reading kept in a key
    ops,     \* use-case calls started so far
    walk     \* the client that follows nextCursor: list calls made, pages received

vars == <<db, tx, frame, result, nextID, clock, ops, walk>>

Tables == {"people", "clinics", "dentists", "clinic_dentists", "bank_accounts", "users"}

EmptyDB == [t \in Tables |-> <<>>]

NoTx == [status |-> "none", now |-> 0, writes |-> EmptyDB, locks |-> {}]

\* persisted: the running call has already written committed rows (its
\* transaction committed, or a statement outside a transaction ran).
IdleFrame ==
    [pc |-> "idle", op |-> NULL, clinicID |-> NULL, dentistID |-> NULL, input |-> NULL,
     taxID |-> NULL, personID |-> NULL, newID |-> NULL, clinic |-> NULL, person |-> NULL,
     dentist |-> NULL, relation |-> NULL, created |-> FALSE, i |-> 1, wait |-> Nil,
     pageLimit |-> 0, cursor |-> Nil, afterID |-> Nil, rows |-> <<>>, hasNext |-> FALSE,
     persisted |-> FALSE]

NoResult ==
    [op |-> NULL, clinicID |-> NULL, input |-> NULL, err |-> NULL, created |-> FALSE,
     out |-> NULL, detail |-> NULL]

\* No list call made yet, no page walk begun.
NoWalk ==
    [calls |-> 0, kind |-> "none", w |-> 0, clinicID |-> 0, limit |-> 0, pages |-> <<>>,
     fetching |-> FALSE, done |-> FALSE]

\* The databases the service is started on: an empty one, and two that
\* earlier calls left behind (CreateClinic with two bank accounts; CreateClinic
\* with one, then CreateOrAttachDentist with is_admin).
SeedPerson(personType, taxIDType, taxID, name) ==
    [person_type |-> personType, tax_id_type |-> taxIDType, tax_id_number |-> taxID,
     legal_name |-> name, trade_name |-> NULL, email |-> NULL, phone |-> NULL,
     deleted_at |-> Nil]
SeedAccount(clinicID, account) ==
    [clinic_id |-> clinicID, bank_code |-> account.bank_code,
     branch_number |-> account.branch_number, account_number |-> account.account_number,
     deleted_at |-> Nil]

SeedEmpty == [db |-> EmptyDB, nextID |-> 1, clock |-> 1]

SeedClinic ==
    [db |-> [EmptyDB EXCEPT
        !.people = 1 :> SeedPerson("COMPANY", "CNPJ", SelectSeq(Chars_CNPJ_A, IsAlnum), "Acme Dental"),
        !.clinics = 2 :> [person_id |-> 1, deleted_at |-> Nil],
        !.bank_accounts = (3 :> SeedAccount(2, Acc1)) @@ (4 :> SeedAccount(2, Acc2))],
     nextID |-> 5, clock |-> 2]

SeedLinked ==
    [db |-> [EmptyDB EXCEPT
        !.people = (1 :> SeedPerson("COMPANY", "CNPJ", SelectSeq(Chars_CNPJ_A, IsAlnum), "Acme Dental"))
                   @@ (4 :> SeedPerson("INDIVIDUAL", "CPF", SelectSeq(Chars_CPF_A, IsDigit), "Ana")),
        !.clinics = 2 :> [person_id |-> 1, deleted_at |-> Nil],
        !.bank_accounts = 3 :> SeedAccount(2, Acc1),
        !.dentists = 5 :> [person_id |-> 4, deleted_at |-> Nil],
        !.clinic_dentists = <<2, 5, 3>> :>
            [clinic_id |-> 2, dentist_id |-> 5, is_admin |-> TRUE,
             is_legal_representative |-> FALSE, started_at |-> 3, ended_at |-> Nil]],
     nextID |-> 6, clock |-> 4]

\* SeedLinked, then CreateClinic and CreateOrAttachDentist of the same person.
SeedTwoClinics ==
    [db |-> [SeedLinked.db EXCEPT
        !.people = @ @@ (6 :> SeedPerson("COMPANY", "CNPJ", SelectSeq(Chars_CNPJ_B, IsAlnum),
                                         "Acme Dental")),
        !.clinics = @ @@ (7 :> [person_id |-> 6, deleted_at |-> Nil]),
        !.bank_accounts = @ @@ (8 :> SeedAccount(7, Acc1)),
        !.clinic_dentists = @ @@ (<<7, 5, 6>> :>
            [clinic_id |-> 7, dentist_id |-> 5, is_admin |-> FALSE,
             is_legal_representative |-> FALSE, started_at |-> 6, ended_at |-> Nil])],
     nextID |-> 9, clock |-> 7]

Seeds == {SeedEmpty, SeedClinic, SeedLinked, SeedTwoClinics}

Init ==
    /\ \E seed \in Seeds :
        /\ db = seed.db
        /\ nextID = seed.nextID
        /\ clock = seed.clock
    /\ tx = [w \in Workers |-> NoTx]
    /\ frame = [w \in Workers |-> IdleFrame]
    /\ result = [w \in Workers |-> NoResult]
    /\ ops = 0
    /\ walk = NoWalk

\* A store that the schema's constraints on people permit and that the
\* use-cases do not produce: the second clinic's COMPANY person has a
\* tax_id_number of eleven digits, which is also a valid CPF.
SeedCompanyWithCPF ==
    [SeedTwoClinics EXCEPT !.db.people[6].tax_id_number = Chars_CPF_B]

InitCompanyWithCPF ==
    /\ db = SeedCompanyWithCPF.db
    /\ nextID = SeedCompanyWithCPF.nextID
    /\ clock = SeedCompanyWithCPF.clock
    /\ tx = [w \in Workers |-> NoTx]
    /\ frame = [w \in Workers |-> IdleFrame]
    /\ result = [w \in Workers |-> NoResult]
    /\ ops = 0
    /\ walk = NoWalk

\* ------------------------------------------------- the store (PostgreSQL)

\* What a statement of worker w reads in table t: the committed rows with
\* its own transaction's writes over them.
View(w, t) == tx[w].writes[t] @@ db[t]

\* The partial unique indexes of schema.sql.
\* A variant that treats no row of clinic_dentists as active.
Indexed_NoActiveLink(t, r) == t # "clinic_dentists" /\ r.deleted_at = Nil

Indexed(t, r) == IF t = "clinic_dentists" THEN r.ended_at = Nil ELSE r.deleted_at = Nil

UniqueKey(t, r) ==
    CASE t = "people" -> r.tax_id_number
      [] t = "clinics" -> r.person_id
      [] t = "dentists" -> r.person_id
      [] t = "clinic_dentists" -> <<r.clinic_id, r.dentist_id>>
      [] t = "users" -> ToLower(r.email)

HasUniqueIndex(t) == t # "bank_accounts"

\* A variant for unique indexes that cover the deleted rows too.
Collides_WithDeleted(t, r, other) == UniqueKey(t, other) = UniqueKey(t, r)

Collides(t, r, other) == Indexed(t, other) /\ UniqueKey(t, other) = UniqueKey(t, r)

\* Workers whose open transaction wrote (inserted, updated or soft-deleted) a
\* row that collides with r in a committed or pending version: the INSERT of
\* r waits for them.
UniqueBlockers(w, t, r) ==
    IF ~HasUniqueIndex(t) THEN {}
    ELSE {o \in Workers \ {w} :
            \E k \in DOMAIN tx[o].writes[t] :
                \/ Collides(t, r, tx[o].writes[t][k])
                \/ k \in DOMAIN db[t] /\ Collides(t, r, db[t][k])}

\* 23505: a row w can see collides with r.
\* A variant in which no insert is ever refused by a unique index.
UniqueViolation_Never(w, t, r) == FALSE

UniqueViolation(w, t, r) ==
    /\ HasUniqueIndex(t)
    /\ \E k \in DOMAIN View(w, t) : Collides(t, r, View(w, t)[k])

\* Row locks.  A written row is locked FOR NO KEY UPDATE by its writer;
\* tx.locks holds the FOR UPDATE and FOR KEY SHARE locks on clinic rows (no
\* statement of the service asks FOR UPDATE on another table, so key-share
\* locks on people and dentists rows never make anyone wait).
LockConflict(o, t, k, mode) ==
    CASE mode = "update" ->
            \/ k \in DOMAIN tx[o].writes[t]
            \/ <<t, k, "for update">> \in tx[o].locks
      [] mode = "for update" ->
            \/ k \in DOMAIN tx[o].writes[t]
            \/ <<t, k, "for update">> \in tx[o].locks
            \/ <<t, k, "key share">> \in tx[o].locks
      [] mode = "key share" ->
            <<t, k, "for update">> \in tx[o].locks

LockBlockers(w, t, keys, mode) ==
    {o \in Workers \ {w} : \E k \in keys : LockConflict(o, t, k, mode)}

\* A variant that drops the rows the transaction marked as deleted or ended.
Committed_Purging(w) ==
    [t \in Tables |-> [k \in {j \in DOMAIN View(w, t) : Indexed(t, View(w, t)[j])} |-> View(w, t)[k]]]

\* tx.Commit(): the transaction's writes become the committed rows.
Committed(w) == [t \in Tables |-> View(w, t)]


\* ------------------------------------------------------ rows and helpers

RECURSIVE SortedSeq(_)
\* ORDER BY on a set of identifiers.
SortedSeq(S) ==
    IF S = {} THEN <<>>
    ELSE LET m == CHOOSE x \in S : \A y \in S : x <= y
         IN  <<m>> \o SortedSeq(S \ {m})

Live(t, rows) == {k \in DOMAIN rows : Indexed(t, rows[k])}

\* ListBankAccountsByClinicID: the clinic's accounts with deleted_at IS NULL.
ActiveBankAccounts(rows, clinicID) ==
    {k \in DOMAIN rows : rows[k].clinic_id = clinicID /\ rows[k].deleted_at = Nil}

\* A variant that does not compare the clinic.
DeleteBankAccountByID(rows, id, clinicID) ==
    {k \in DOMAIN rows : k = id /\ rows[k].deleted_at = Nil}

\* DeleteBankAccountByIDAndClinicID's WHERE clause:
\* id = $1 AND clinic_id = $2 AND deleted_at IS NULL
DeleteBankAccountByIDAndClinicID(rows, id, clinicID) ==
    {k \in DOMAIN rows :
        k = id /\ rows[k].clinic_id = clinicID /\ rows[k].deleted_at = Nil}

\* ListDentistsByClinicID: the join of clinic_dentists, dentists, people and
\* clinics, none of them deleted or ended, ORDER BY d.id.
ListDentistsByClinicID(d, clinicID) ==
    SortedSeq({l[2] : l \in {k \in DOMAIN d.clinic_dentists :
        /\ k[1] = clinicID
        /\ d.clinic_dentists[k].ended_at = Nil
        /\ k[2] \in DOMAIN d.dentists
        /\ d.dentists[k[2]].deleted_at = Nil
        /\ d.dentists[k[2]].person_id \in DOMAIN d.people
        /\ d.people[d.dentists[k[2]].person_id].deleted_at = Nil
        /\ clinicID \in DOMAIN d.clinics
        /\ d.clinics[clinicID].deleted_at = Nil}})

\* GetClinicDetails: clinic joined with its person, both not deleted.
GetClinicDetails(d, clinicID) ==
    IF /\ clinicID \in DOMAIN d.clinics
       /\ d.clinics[clinicID].deleted_at = Nil
       /\ d.clinics[clinicID].person_id \in DOMAIN d.people
       /\ d.people[d.clinics[clinicID].person_id].deleted_at = Nil
    THEN LET p == d.people[d.clinics[clinicID].person_id]
         IN  [valid |-> TRUE, clinic_id |-> clinicID, person_id |-> d.clinics[clinicID].person_id,
              legal_name |-> p.legal_name, trade_name |-> p.trade_name,
              tax_id_number |-> p.tax_id_number, email |-> p.email, phone |-> p.phone]
    ELSE Nil

\* UpdatePerson's SET clause.
UpdatePersonRow(r, legal_name, trade_name, email, phone) ==
    [r EXCEPT !.legal_name = Coalesce(legal_name, @),
              !.trade_name = Coalesce(trade_name, @),
              !.email = Coalesce(email, @),
              !.phone = Coalesce(phone, @)]

\* SET deleted_at = now() and SET ended_at = now()
\* A variant that leaves the marker as it is.
SoftDelete_KeepsRow(r, now) == r
SoftDelete(r, now) == [r EXCEPT !.deleted_at = Some(now)]
\* A variant that moves the start of the affiliation it ends.
EndLink_MovesStart(r, now) == [r EXCEPT !.ended_at = Some(now), !.started_at = now]
EndLink(r, now) == [r EXCEPT !.ended_at = Some(now)]

\* rows with f applied to the keys in ks, as a write set
Rewritten(rows, ks, f(_)) == [k \in ks |-> f(rows[k])]

\* ------------------------------------------------- use-case bookkeeping

\* A variant in which a return leaves the transaction as it is.
ReturnOf_NoRollback(w, op, clinicID, input, err, created, out) ==
    /\ tx' = tx
    /\ frame' = [frame EXCEPT ![w] = IdleFrame]
    /\ result' = [result EXCEPT ![w] =
            [op |-> op, clinicID |-> clinicID, input |-> input,
             err |-> err, created |-> created, out |-> out, detail |-> NULL]]

\* return ..., err with the deferred tx.Rollback(): the transaction's writes
\* and locks are dropped.
ReturnOf(w, op, clinicID, input, err, created, out) ==
    /\ tx' = [tx EXCEPT ![w] = NoTx]
    /\ frame' = [frame EXCEPT ![w] = IdleFrame]
    /\ result' = [result EXCEPT ![w] =
            [op |-> op, clinicID |-> clinicID, input |-> input,
             err |-> err, created |-> created, out |-> out, detail |-> NULL]]

\* A return whose error carries a message the caller reads.
ReturnDetail(w, op, input, err, detail, out) ==
    /\ tx' = [tx EXCEPT ![w] = NoTx]
    /\ frame' = [frame EXCEPT ![w] = IdleFrame]
    /\ result' = [result EXCEPT ![w] =
            [op |-> op, clinicID |-> NULL, input |-> input,
             err |-> err, created |-> FALSE, out |-> out, detail |-> detail]]

Return(w, err, created, out) ==
    ReturnOf(w, frame[w].op, frame[w].clinicID, frame[w].input, err, created, out)

\* A request refused by the checks that come before the first query.
Reject(w, op, clinicID, input, err) == ReturnOf(w, op, clinicID, input, err, FALSE, NULL)

\* s.db.BeginTx(ctx, nil); now() is the transaction's start time in all of
\* its statements.
BeginTx(w) ==
    /\ tx' = [tx EXCEPT ![w] = [NoTx EXCEPT !.status = "open", !.now = clock]]
    /\ clock' = clock + 1

\* The handlers of the protected routes; a use-case is called by a caller of
\* the service or by the handler a request has reached.
ProtectedHandlers ==
    {"listClinics", "createClinic", "getClinic", "updateClinic", "deleteClinic",
     "createDentist", "listClinicDentists", "updateClinicDentistRole",
     "unlinkDentistFromClinic", "updateDentist", "deleteDentist"}

Idle(w) == frame[w].pc \in {"idle"} \cup ProtectedHandlers /\ ops < MaxOps

\* Committed identifiers a client can name in a request.
KnownIDs(t) == DOMAIN db[t] \cup {UnknownID}


\* ------------------------------------------------------------ CreateClinic

AccountList(n) == [i \in 1..n |-> IF i % 2 = 1 THEN Acc1 ELSE Acc2]

CreateClinicBase ==
    [tax_id_number |-> Chars_CNPJ_A, legal_name |-> "Acme Dental", trade_name |-> NULL,
     email |-> NULL, phone |-> NULL, bank_accounts |-> <<Acc1>>]

CreateClinicInputs ==
    {[CreateClinicBase EXCEPT !.bank_accounts = AccountList(n)] : n \in 0..MaxList}
    \cup {[CreateClinicBase EXCEPT !.tax_id_number = Chars_CNPJ_B],
          [CreateClinicBase EXCEPT !.tax_id_number = Chars_short],
          [CreateClinicBase EXCEPT !.legal_name = "  "],
          [CreateClinicBase EXCEPT !.legal_name = " Acme Dental ", !.email = "a@acme.io"],
          [CreateClinicBase EXCEPT !.email = "not-an-email"],
          [CreateClinicBase EXCEPT !.bank_accounts = <<AccBlank>>],
          [CreateClinicBase EXCEPT !.legal_name = Name255],
          [CreateClinicBase EXCEPT !.legal_name = Name256]}

\* The requests two concurrent clients draw from.
CreateClinicSample ==
    {CreateClinicBase,
     [CreateClinicBase EXCEPT !.tax_id_number = Chars_CNPJ_B, !.bank_accounts = AccountList(MaxList)],
     [CreateClinicBase EXCEPT !.bank_accounts = <<>>]}

validateBankAccountInput(account) ==
    /\ TrimSpace(account.bank_code) # ""
    /\ TrimSpace(account.branch_number) # ""
    /\ TrimSpace(account.account_number) # ""

validateBankAccountsInput(accounts) ==
    IF \A i \in DOMAIN accounts : validateBankAccountInput(accounts[i]) THEN NULL
    ELSE ErrValidation

\* The checks of CreateClinic before BeginTx: NULL, or the error returned.
CreateClinicValidation(input) ==
    IF ~ValidateCNPJ(NormalizeCNPJ(input.tax_id_number)) THEN ErrValidation
    ELSE IF TrimSpace(input.legal_name) = "" THEN ErrValidation
    ELSE IF input.email # NULL /\ TrimSpace(input.email) # "" /\ ~ValidateEmail(input.email)
        THEN ErrValidation
    ELSE IF Len(input.bank_accounts) = 0 THEN ErrValidation
    ELSE validateBankAccountsInput(input.bank_accounts)

BankAccountRow(clinicID, account) ==
    [clinic_id |-> clinicID, bank_code |-> TrimSpace(account.bank_code),
     branch_number |-> TrimSpace(account.branch_number),
     account_number |-> TrimSpace(account.account_number), deleted_at |-> Nil]

\* A variant that files the clinic's Person as an individual.
CreateClinic_PersonRow_Individual(f) ==
    [person_type |-> "INDIVIDUAL", tax_id_type |-> "CNPJ", tax_id_number |-> f.taxID,
     legal_name |-> TrimSpace(f.input.legal_name),
     trade_name |-> optionalString(f.input.trade_name),
     email |-> optionalString(f.input.email),
     phone |-> optionalString(f.input.phone), deleted_at |-> Nil]

CreateClinic_PersonRow(f) ==
    [person_type |-> "COMPANY", tax_id_type |-> "CNPJ", tax_id_number |-> f.taxID,
     legal_name |-> TrimSpace(f.input.legal_name),
     trade_name |-> optionalString(f.input.trade_name),
     email |-> optionalString(f.input.email),
     phone |-> optionalString(f.input.phone), deleted_at |-> Nil]


\* ----------------------------------------------- UpdateClinic: requests

NoPatch == [legal_name |-> NULL, trade_name |-> NULL, email |-> NULL, phone |-> NULL]
Patch1 == [legal_name |-> "Acme Two", trade_name |-> NULL, email |-> "b@acme.io", phone |-> NULL]
Patch2 == [legal_name |-> NULL, trade_name |-> "Acme", email |-> NULL, phone |-> "5511"]

UpdateClinicInput(patch, accounts, remove) ==
    [legal_name |-> patch.legal_name, trade_name |-> patch.trade_name, email |-> patch.email,
     phone |-> patch.phone, bank_accounts |-> accounts, bank_account_ids_to_remove |-> remove]

\* bank_account_ids_to_remove lists: identifiers of committed accounts (of any
\* clinic) and the unknown one, up to MaxList of them, repetitions included.
RemoveLists ==
    UNION {[1..n -> KnownIDs("bank_accounts")] : n \in 1..MaxList}

UpdateClinicInputs ==
    {UpdateClinicInput(patch, accounts, remove) :
        patch \in {NoPatch, Patch1},
        accounts \in {Nil, Some(<<Acc2>>)},
        remove \in {Nil} \cup {Some(l) : l \in RemoveLists}}
    \cup {UpdateClinicInput(Patch2, Nil, Nil),
          UpdateClinicInput([NoPatch EXCEPT !.trade_name = Name255], Nil, Nil),
          UpdateClinicInput([NoPatch EXCEPT !.trade_name = Name256], Nil, Nil),
          UpdateClinicInput([NoPatch EXCEPT !.legal_name = "  "], Nil, Nil),
          UpdateClinicInput([NoPatch EXCEPT !.email = "not-an-email"], Nil, Nil),
          UpdateClinicInput(NoPatch, Some(<<>>), Nil),
          UpdateClinicInput(NoPatch, Some(<<AccBlank>>), Nil),
          UpdateClinicInput(NoPatch, Nil, Some(<<>>)),
          UpdateClinicInput(NoPatch, Nil, Some(<<BadID>>))}

\* The requests two concurrent clients draw from: a patch, an added account,
\* the removal of one committed account or of all of them, and an added
\* account with each removal.
AllAccounts == SortedSeq(DOMAIN db.bank_accounts)
UpdateClinicSample ==
    {UpdateClinicInput(Patch1, Nil, Nil), UpdateClinicInput(NoPatch, Some(<<Acc2>>), Nil)}
    \cup {UpdateClinicInput(NoPatch, accounts, Some(remove)) :
            accounts \in {Nil, Some(<<Acc2>>)},
            remove \in {<<id>> : id \in DOMAIN db.bank_accounts}
                       \cup {l \in {AllAccounts} : Len(l) \in 2..MaxList}}

HasPersonFields(input) ==
    input.legal_name # NULL \/ input.trade_name # NULL \/ input.email # NULL \/ input.phone # NULL

\* The checks of UpdateClinic before BeginTx: NULL, or the error returned.
UpdateClinicValidation(input) ==
    IF ~HasPersonFields(input) /\ ~input.bank_accounts.valid
            /\ ~input.bank_account_ids_to_remove.valid THEN ErrValidation
    ELSE IF input.legal_name # NULL /\ TrimSpace(input.legal_name) = "" THEN ErrValidation
    ELSE IF input.email # NULL /\ TrimSpace(input.email) # "" /\ ~ValidateEmail(input.email)
        THEN ErrValidation
    ELSE IF input.bank_accounts.valid /\ Len(input.bank_accounts.value) = 0 THEN ErrValidation
    ELSE IF input.bank_accounts.valid
            /\ validateBankAccountsInput(input.bank_accounts.value) # NULL THEN ErrValidation
    ELSE IF input.bank_account_ids_to_remove.valid
            /\ Len(input.bank_account_ids_to_remove.value) = 0 THEN ErrValidation
    ELSE IF input.bank_account_ids_to_remove.valid
            /\ \E i \in DOMAIN input.bank_account_ids_to_remove.value :
                    ~IsUUIDv7(input.bank_account_ids_to_remove.value[i]) THEN ErrValidation
    ELSE NULL

\* Where UpdateClinic goes after the person update, and after the inserts.
UpdateClinic_AfterAccounts(input) ==
    IF input.bank_account_ids_to_remove.valid THEN "UpdateClinic_lockClinicForUpdate"
    ELSE "UpdateClinic_ListBankAccountsByClinicID"
UpdateClinic_AfterPerson(input) ==
    IF input.bank_accounts.valid THEN "UpdateClinic_CreateBankAccount"
    ELSE UpdateClinic_AfterAccounts(input)
UpdateClinic_AfterGet(input) ==
    IF HasPersonFields(input) THEN "UpdateClinic_UpdatePerson"
    ELSE UpdateClinic_AfterPerson(input)

\* ------------------------------------------ CreateOrAttachDentist: requests

\* The JSON body of POST /clinics/:id/dentists.  A flag the body leaves out
\* is Nil here.
CreateDentistBody(tax, name, email, admin, legalRep) ==
    [tax_id_number |-> tax, legal_name |-> name, email |-> email, phone |-> NULL,
     is_admin |-> admin, is_legal_representative |-> legalRep]

FlagPairs ==
    {<<Nil, Nil>>, <<Some(TRUE), Some(FALSE)>>, <<Some(FALSE), Some(TRUE)>>, <<Nil, Some(TRUE)>>}

CreateDentistBodies ==
    {CreateDentistBody(tax, "Ana", NULL, fl[1], fl[2]) :
        tax \in {Chars_CPF_A, Chars_CPF_B}, fl \in FlagPairs}
    \cup {CreateDentistBody(Chars_CPF_A_plain, "Ana Lima", "a@acme.io", Some(TRUE), Some(TRUE)),
          CreateDentistBody(Chars_short, "Ana", NULL, Nil, Nil),
          CreateDentistBody(Chars_CPF_A, "  ", NULL, Nil, Nil),
          CreateDentistBody(Chars_CPF_A, "Ana", "not-an-email", Nil, Nil)}

\* The bodies two concurrent clients draw from.
CreateDentistSample ==
    {CreateDentistBody(Chars_CPF_A, "Ana", NULL, Some(TRUE), Some(FALSE)),
     CreateDentistBody(Chars_CPF_A_plain, "Ana Lima", "a@acme.io", Nil, Some(TRUE)),
     CreateDentistBody(Chars_CPF_B, "Bia", NULL, Nil, Nil)}

\* c.ShouldBindJSON into CreateDentistInput: IsAdmin and IsLegalRepresentative
\* are plain bool fields, so a flag the body leaves out is false.
BindBool(flag) == IF flag.valid THEN flag.value ELSE FALSE
BindCreateDentistInput(body) ==
    [body EXCEPT !.is_admin = BindBool(body.is_admin),
                 !.is_legal_representative = BindBool(body.is_legal_representative)]

\* A variant that lets any email through.
CreateOrAttachDentistValidation_AnyEmail(input) ==
    IF ~ValidateCPF(NormalizeCPF(input.tax_id_number)) THEN ErrValidation
    ELSE IF TrimSpace(input.legal_name) = "" THEN ErrValidation
    ELSE NULL

\* The checks of CreateOrAttachDentist before BeginTx: NULL, or the error.
CreateOrAttachDentistValidation(input) ==
    IF ~ValidateCPF(NormalizeCPF(input.tax_id_number)) THEN ErrValidation
    ELSE IF TrimSpace(input.legal_name) = "" THEN ErrValidation
    ELSE IF input.email # NULL /\ TrimSpace(input.email) # "" /\ ~ValidateEmail(input.email)
        THEN ErrValidation
    ELSE NULL

CreateOrAttachDentist_PersonRow(f) ==
    [person_type |-> "INDIVIDUAL", tax_id_type |-> "CPF", tax_id_number |-> f.taxID,
     legal_name |-> TrimSpace(f.input.legal_name), trade_name |-> NULL,
     email |-> optionalString(f.input.email),
     phone |-> optionalString(f.input.phone), deleted_at |-> Nil]

CreateOrAttachDentist_PersonPatch(f, r) ==
    UpdatePersonRow(r, optionalString(TrimSpace(f.input.legal_name)), NULL,
                    optionalString(f.input.email), optionalString(f.input.phone))

\* CreateClinicDentist's row; StartedAt is time.Now() of the service.
ClinicDentistRow(f, startedAt) ==
    [clinic_id |-> f.clinicID, dentist_id |-> f.dentistID,
     is_admin |-> BindCreateDentistInput(f.input).is_admin,
     is_legal_representative |-> BindCreateDentistInput(f.input).is_legal_representative,
     started_at |-> startedAt, ended_at |-> Nil]

\* UpdateClinicDentistRole's SET clause: COALESCE(narg, column) per flag.
\* A variant that leaves the role flags as they are.
UpdateRoleRow_KeepsFlags(r, admin, legalRep) == r

UpdateRoleRow(r, admin, legalRep) ==
    [r EXCEPT !.is_admin = IF admin.valid THEN admin.value ELSE @,
              !.is_legal_representative = IF legalRep.valid THEN legalRep.value ELSE @]

\* WHERE clinic_id = $1 AND dentist_id = $2 AND ended_at IS NULL
ActiveLinks(rows, clinicID, dentistID) ==
    {k \in Live("clinic_dentists", rows) : k[1] = clinicID /\ k[2] = dentistID}

\* ----------------------------- the other dentist use-cases: requests

\* UpdateClinicDentistRoleInput: two *bool.
UpdateClinicDentistRoleInputs ==
    {[is_admin |-> a, is_legal_representative |-> l] :
        a \in {Nil, Some(TRUE), Some(FALSE)}, l \in {Nil, Some(TRUE), Some(FALSE)}}
UpdateClinicDentistRoleSample ==
    {[is_admin |-> Some(FALSE), is_legal_representative |-> Nil],
     [is_admin |-> Nil, is_legal_representative |-> Some(TRUE)]}

\* optionalBool: a nil pointer is an invalid sql.NullBool
optionalBool(value) == value

\* UpdateDentistInput: three *string.
UpdateDentistInput(name, email, phone) == [legal_name |-> name, email |-> email, phone |-> phone]
UpdateDentistInputs ==
    {UpdateDentistInput(NULL, NULL, NULL),
     UpdateDentistInput("  ", NULL, NULL),
     UpdateDentistInput(NULL, "not-an-email", NULL),
     UpdateDentistInput("Ana Lima", NULL, NULL),
     UpdateDentistInput(NULL, "b@acme.io", "5511"),
     UpdateDentistInput(NULL, "  ", NULL)}
UpdateDentistSample == {UpdateDentistInput("Ana Lima", NULL, NULL)}

\* The checks of UpdateDentist before its first query: NULL, or the error.
UpdateDentistValidation(input) ==
    IF input.legal_name = NULL /\ input.email = NULL /\ input.phone = NULL THEN ErrValidation
    ELSE IF input.legal_name # NULL /\ TrimSpace(input.legal_name) = "" THEN ErrValidation
    ELSE IF input.email # NULL /\ TrimSpace(input.email) # "" /\ ~ValidateEmail(input.email)
        THEN ErrValidation
    ELSE NULL

\* A variant that counts the dentist's ended links as well.
ActiveLinksByDentist_WithEnded(rows, dentistID) ==
    {k \in DOMAIN rows : k[2] = dentistID}

\* WHERE dentist_id = $1 AND ended_at IS NULL
ActiveLinksByDentist(rows, dentistID) ==
    {k \in Live("clinic_dentists", rows) : k[2] = dentistID}

\* GetDentistDetailsByID: dentist joined with its person, both not deleted.
GetDentistDetailsByID(d, dentistID) ==
    IF /\ dentistID \in Live("dentists", d.dentists)
       /\ d.dentists[dentistID].person_id \in Live("people", d.people)
    THEN LET p == d.people[d.dentists[dentistID].person_id]
         IN  [valid |-> TRUE, dentist_id |-> dentistID,
              person_id |-> d.dentists[dentistID].person_id, legal_name |-> p.legal_name,
              tax_id_number |-> p.tax_id_number, email |-> p.email, phone |-> p.phone]
    ELSE Nil

\* ------------------------------------- the statement at a worker's position

NoStmt == [kind |-> "none"]
UpdateStmt(t, keys) == [kind |-> "update", t |-> t, keys |-> keys]
ForUpdateStmt(t, keys) == [kind |-> "for update", t |-> t, keys |-> keys]
\* fk: the clinic rows the INSERT's foreign keys name
InsertStmt(t, row, fk) == [kind |-> "insert", t |-> t, row |-> row, fk |-> fk]

\* A variant that finds deleted rows as well.
LiveByID_WithDeleted(w, t, id) == {k \in DOMAIN View(w, t) : k = id}

\* WHERE id = $1 AND deleted_at IS NULL
LiveByID(w, t, id) == {k \in Live(t, View(w, t)) : k = id}

\* The locking statement worker w is at: for an UPDATE or a SELECT FOR
\* UPDATE the rows its WHERE clause selects in what w reads now, for an
\* INSERT the row.
Stmt(w) ==
    LET f == frame[w]
    IN  CASE f.pc = "CreateClinic_CreatePerson" ->
                InsertStmt("people", CreateClinic_PersonRow(f), {})
          [] f.pc = "CreateClinic_CreateClinic" ->
                InsertStmt("clinics", [person_id |-> f.personID, deleted_at |-> Nil], {})
          [] f.pc = "UpdateClinic_UpdatePerson" ->
                UpdateStmt("people", LiveByID(w, "people", f.clinic.person_id))
          [] f.pc = "UpdateClinic_CreateBankAccount" ->
                InsertStmt("bank_accounts",
                           BankAccountRow(f.clinicID, f.input.bank_accounts.value[f.i]), {f.clinicID})
          [] f.pc = "UpdateClinic_lockClinicForUpdate" ->
                ForUpdateStmt("clinics", LiveByID(w, "clinics", f.clinicID))
          [] f.pc = "UpdateClinic_DeleteBankAccount" ->
                UpdateStmt("bank_accounts",
                    DeleteBankAccountByIDAndClinicID(View(w, "bank_accounts"),
                        f.input.bank_account_ids_to_remove.value[f.i], f.clinicID))
          [] f.pc = "DeleteClinic_EndClinicDentistsByClinic" ->
                UpdateStmt("clinic_dentists",
                    {k \in Live("clinic_dentists", View(w, "clinic_dentists")) : k[1] = f.clinicID})
          [] f.pc = "DeleteClinic_DeleteClinic" ->
                UpdateStmt("clinics", LiveByID(w, "clinics", f.clinicID))
          [] f.pc = "DeleteClinic_DeletePerson" ->
                UpdateStmt("people", LiveByID(w, "people", f.clinic.person_id))
          [] f.pc = "CreateOrAttachDentist_CreatePerson" ->
                InsertStmt("people", CreateOrAttachDentist_PersonRow(f), {})
          [] f.pc = "CreateOrAttachDentist_UpdatePerson" ->
                UpdateStmt("people", LiveByID(w, "people", f.personID))
          [] f.pc = "CreateOrAttachDentist_CreateDentist" ->
                InsertStmt("dentists", [person_id |-> f.personID, deleted_at |-> Nil], {})
          [] f.pc = "CreateOrAttachDentist_CreateClinicDentist" ->
                InsertStmt("clinic_dentists", ClinicDentistRow(f, clock), {f.clinicID})
          [] f.pc = "CreateOrAttachDentist_UpdateClinicDentistRole" ->
                UpdateStmt("clinic_dentists",
                           ActiveLinks(View(w, "clinic_dentists"), f.clinicID, f.dentistID))
          [] f.pc = "UpdateClinicDentistRole_UpdateClinicDentistRole" ->
                UpdateStmt("clinic_dentists",
                           ActiveLinks(View(w, "clinic_dentists"), f.clinicID, f.dentistID))
          [] f.pc = "UnlinkDentistFromClinic_EndClinicDentist" ->
                UpdateStmt("clinic_dentists",
                           ActiveLinks(View(w, "clinic_dentists"), f.clinicID, f.dentistID))
          [] f.pc = "UpdateDentist_UpdatePerson" ->
                UpdateStmt("people", LiveByID(w, "people", f.personID))
          [] f.pc = "DeleteDentist_EndClinicDentistsByDentist" ->
                UpdateStmt("clinic_dentists",
                           ActiveLinksByDentist(View(w, "clinic_dentists"), f.dentistID))
          [] f.pc = "DeleteDentist_DeleteDentist" ->
                UpdateStmt("dentists", LiveByID(w, "dentists", f.dentistID))
          [] f.pc = "DeleteDentist_DeletePerson" ->
                UpdateStmt("people", LiveByID(w, "people", f.personID))
          [] OTHER -> NoStmt

\* The rows the statement selected when it was issued: w's snapshot, kept
\* while it waits for a lock.
Snapshot(w) == IF frame[w].wait.valid THEN frame[w].wait.value ELSE Stmt(w).keys

\* The rows the statement writes or locks once no lock is in its way: those
\* of its snapshot whose current version still satisfies the WHERE clause.
Affected(w) == Snapshot(w) \cap Stmt(w).keys

\* The workers whose transactions the statement at w's position waits for.
BlockedOn(w) ==
    LET s == Stmt(w)
    IN  CASE s.kind \in {"update", "for update"} -> LockBlockers(w, s.t, Snapshot(w), s.kind)
          [] s.kind = "insert" ->
                UniqueBlockers(w, s.t, s.row) \cup LockBlockers(w, "clinics", s.fk, "key share")
          [] OTHER -> {}

\* The written rows and key-share locks of an INSERT of `row` under key k.
Insert(w, t, k, row, fk) ==
    [tx[w] EXCEPT !.writes[t] = (k :> row) @@ @,
                  !.locks = @ \cup {<<"clinics", c, "key share">> : c \in fk}]

\* The committed rows after an UPDATE that runs outside a transaction.
AutoCommit(w, t, f(_)) == [db EXCEPT ![t] = Rewritten(db[t], Affected(w), f) @@ @]

\* An UPDATE writing f(row) to the affected rows.
Update(w, t, f(_)) ==
    [tx[w] EXCEPT !.writes[t] = Rewritten(View(w, t), Affected(w), f) @@ @]

\* Validation, the two identifiers, BeginTx.
CreateClinic_Begin(w, inputs) ==
    /\ Idle(w)
    /\ \E input \in inputs :
        /\ ops' = ops + 1
        /\ IF CreateClinicValidation(input) # NULL
           THEN /\ Reject(w, "CreateClinic", NULL, input, CreateClinicValidation(input))
                /\ UNCHANGED <<db, nextID, clock>>
           ELSE /\ frame' = [frame EXCEPT ![w] =
                        [IdleFrame EXCEPT !.pc = "CreateClinic_CreatePerson",
                                          !.op = "CreateClinic",
                                          !.input = input,
                                          !.taxID = NormalizeCNPJ(input.tax_id_number),
                                          !.personID = nextID,
                                          !.clinicID = nextID + 1]]
                /\ nextID' = nextID + 2
                /\ BeginTx(w)
                /\ UNCHANGED <<db, result>>
    /\ UNCHANGED walk

\* qtx.CreatePerson; a storage error is returned through mapDatabaseError.
CreateClinic_CreatePerson(w) ==
    LET f == frame[w]
        row == CreateClinic_PersonRow(f)
    IN  /\ f.pc = "CreateClinic_CreatePerson"
        /\ BlockedOn(w) = {}
        /\ IF UniqueViolation(w, "people", row)
           THEN Return(w, mapDatabaseError(PgUniqueViolation), FALSE, NULL)
           ELSE /\ tx' = [tx EXCEPT ![w] = Insert(w, "people", f.personID, row, {})]
                /\ frame' = [frame EXCEPT ![w].pc = "CreateClinic_CreateClinic"]
                /\ UNCHANGED result
        /\ UNCHANGED <<db, nextID, clock, ops>>
        /\ UNCHANGED walk

\* qtx.CreateClinic
CreateClinic_CreateClinic(w) ==
    LET f == frame[w]
        row == [person_id |-> f.personID, deleted_at |-> Nil]
    IN  /\ f.pc = "CreateClinic_CreateClinic"
        /\ BlockedOn(w) = {}
        /\ IF UniqueViolation(w, "clinics", row)
           THEN Return(w, mapDatabaseError(PgUniqueViolation), FALSE, NULL)
           ELSE /\ tx' = [tx EXCEPT ![w] = Insert(w, "clinics", f.clinicID, row, {})]
                /\ frame' = [frame EXCEPT ![w].pc = "CreateClinic_CreateBankAccount", ![w].i = 1]
                /\ UNCHANGED result
        /\ UNCHANGED <<db, nextID, clock, ops>>
        /\ UNCHANGED walk

\* One turn of the loop over input.BankAccounts: newUUIDV7, qtx.CreateBankAccount.
CreateClinic_CreateBankAccount(w) ==
    LET f == frame[w]
        row == BankAccountRow(f.clinicID, f.input.bank_accounts[f.i])
    IN  /\ f.pc = "CreateClinic_CreateBankAccount"
        /\ nextID' = nextID + 1
        /\ tx' = [tx EXCEPT ![w] = Insert(w, "bank_accounts", nextID, row, {})]
        /\ frame' = [frame EXCEPT
                ![w].pc = IF f.i < Len(f.input.bank_accounts)
                          THEN "CreateClinic_CreateBankAccount" ELSE "CreateClinic_Commit",
                ![w].i = f.i + 1]
        /\ UNCHANGED <<db, result, clock, ops>>
        /\ UNCHANGED walk

\* tx.Commit(), then loadClinicSummary outside the transaction.
CreateClinic_Commit(w) ==
    /\ frame[w].pc = "CreateClinic_Commit"
    /\ db' = Committed(w)
    /\ tx' = [tx EXCEPT ![w] = NoTx]
    /\ frame' = [frame EXCEPT ![w].pc = "loadClinicSummary_GetClinicDetails",
                              ![w].persisted = TRUE]
    /\ UNCHANGED <<result, nextID, clock, ops>>
    /\ UNCHANGED walk

\* ------------------------------------------------------ loadClinicSummary

\* s.queries.GetClinicDetails
loadClinicSummary_GetClinicDetails(w) ==
    LET f == frame[w]
        row == GetClinicDetails(db, f.clinicID)
    IN  /\ f.pc = "loadClinicSummary_GetClinicDetails"
        /\ IF ~row.valid
           THEN Return(w, ErrNotFound, FALSE, NULL)
           ELSE /\ frame' = [frame EXCEPT ![w].pc = "loadClinicSummary_ListDentistsByClinicID",
                                          ![w].clinic = row]
                /\ UNCHANGED <<tx, result>>
        /\ UNCHANGED <<db, nextID, clock, ops>>
        /\ UNCHANGED walk

\* mapClinicSummary: the ClinicOutput
mapClinicSummary(row, dentistIDs) ==
    [id |-> row.clinic_id, person_id |-> row.person_id, legal_name |-> row.legal_name,
     trade_name |-> row.trade_name, tax_id_number |-> row.tax_id_number,
     email |-> row.email, phone |-> row.phone, dentist_ids |-> dentistIDs]

\* s.queries.ListDentistsByClinicID and the return
loadClinicSummary_ListDentistsByClinicID(w) ==
    LET f == frame[w]
    IN  /\ f.pc = "loadClinicSummary_ListDentistsByClinicID"
        /\ Return(w, NULL, FALSE, mapClinicSummary(f.clinic, ListDentistsByClinicID(db, f.clinicID)))
        /\ UNCHANGED <<db, nextID, clock, ops>>
        /\ UNCHANGED walk


\* ------------------------------------------------------------ UpdateClinic

\* Validation, BeginTx.
UpdateClinic_Begin(w, inputs) ==
    /\ Idle(w)
    /\ \E clinicID \in KnownIDs("clinics"), input \in inputs :
        /\ ops' = ops + 1
        /\ IF UpdateClinicValidation(input) # NULL
           THEN /\ Reject(w, "UpdateClinic", clinicID, input, UpdateClinicValidation(input))
                /\ UNCHANGED clock
           ELSE /\ frame' = [frame EXCEPT ![w] =
                        [IdleFrame EXCEPT !.pc = "UpdateClinic_GetClinicByID",
                                          !.op = "UpdateClinic",
                                          !.clinicID = clinicID,
                                          !.input = input]]
                /\ BeginTx(w)
                /\ UNCHANGED result
    /\ UNCHANGED <<db, nextID>>
    /\ UNCHANGED walk

\* qtx.GetClinicByID
UpdateClinic_GetClinicByID(w) ==
    LET f == frame[w]
    IN  /\ f.pc = "UpdateClinic_GetClinicByID"
        /\ IF LiveByID(w, "clinics", f.clinicID) = {}
           THEN Return(w, ErrNotFound, FALSE, NULL)
           ELSE /\ frame' = [frame EXCEPT
                        ![w].pc = UpdateClinic_AfterGet(f.input),
                        ![w].clinic = [id |-> f.clinicID,
                                       person_id |-> View(w, "clinics")[f.clinicID].person_id]]
                /\ UNCHANGED <<tx, result>>
        /\ UNCHANGED <<db, nextID, clock, ops>>
        /\ UNCHANGED walk

UpdateClinic_PersonPatch(f, r) ==
    UpdatePersonRow(r, optionalString(f.input.legal_name), optionalString(f.input.trade_name),
                    optionalString(f.input.email), optionalString(f.input.phone))

\* qtx.UpdatePerson (:one, so no row is sql.ErrNoRows)
UpdateClinic_UpdatePerson(w) ==
    LET f == frame[w]
        patch(r) == UpdateClinic_PersonPatch(f, r)
    IN  /\ f.pc = "UpdateClinic_UpdatePerson"
        /\ BlockedOn(w) = {}
        /\ IF Affected(w) = {}
           THEN Return(w, mapDatabaseError(SqlErrNoRows), FALSE, NULL)
           ELSE /\ tx' = [tx EXCEPT ![w] = Update(w, "people", patch)]
                /\ frame' = [frame EXCEPT ![w].pc = UpdateClinic_AfterPerson(f.input),
                                          ![w].wait = Nil, ![w].i = 1]
                /\ UNCHANGED result
        /\ UNCHANGED <<db, nextID, clock, ops>>
        /\ UNCHANGED walk

\* One turn of the loop over input.BankAccounts.
UpdateClinic_CreateBankAccount(w) ==
    LET f == frame[w]
        row == BankAccountRow(f.clinicID, f.input.bank_accounts.value[f.i])
        last == f.i = Len(f.input.bank_accounts.value)
    IN  /\ f.pc = "UpdateClinic_CreateBankAccount"
        /\ BlockedOn(w) = {}
        /\ nextID' = nextID + 1
        /\ tx' = [tx EXCEPT ![w] = Insert(w, "bank_accounts", nextID, row, {f.clinicID})]
        /\ frame' = [frame EXCEPT
                ![w].pc = IF last THEN UpdateClinic_AfterAccounts(f.input)
                          ELSE "UpdateClinic_CreateBankAccount",
                ![w].i = IF last THEN 1 ELSE f.i + 1]
        /\ UNCHANGED <<db, result, clock, ops>>
        /\ UNCHANGED walk

\* lockClinicForUpdate: SELECT id FROM clinics WHERE ... FOR UPDATE
\* A variant that neither waits for nor takes the lock on the clinic row.
UpdateClinic_lockClinicForUpdate_NoLock(w) ==
    LET f == frame[w]
    IN  /\ f.pc = "UpdateClinic_lockClinicForUpdate"
        /\ IF Affected(w) = {}
           THEN Return(w, ErrNotFound, FALSE, NULL)
           ELSE /\ frame' = [frame EXCEPT ![w].pc = "UpdateClinic_DeleteBankAccount",
                                          ![w].wait = Nil, ![w].i = 1]
                /\ UNCHANGED <<tx, result>>
        /\ UNCHANGED <<db, nextID, clock, ops>>
        /\ UNCHANGED walk

UpdateClinic_lockClinicForUpdate(w) ==
    LET f == frame[w]
    IN  /\ f.pc = "UpdateClinic_lockClinicForUpdate"
        /\ BlockedOn(w) = {}
        /\ IF Affected(w) = {}
           THEN Return(w, ErrNotFound, FALSE, NULL)
           ELSE /\ tx' = [tx EXCEPT ![w].locks = @ \cup {<<"clinics", f.clinicID, "for update">>}]
                /\ frame' = [frame EXCEPT ![w].pc = "UpdateClinic_DeleteBankAccount",
                                          ![w].wait = Nil, ![w].i = 1]
                /\ UNCHANGED result
        /\ UNCHANGED <<db, nextID, clock, ops>>
        /\ UNCHANGED walk

\* One turn of the loop over input.BankAccountIDsToRemove:
\* DeleteBankAccountByIDAndClinicID, NotFound when it affects no row.
UpdateClinic_DeleteBankAccount(w) ==
    LET f == frame[w]
        last == f.i = Len(f.input.bank_account_ids_to_remove.value)
    IN  /\ f.pc = "UpdateClinic_DeleteBankAccount"
        /\ BlockedOn(w) = {}
        /\ IF Affected(w) = {}
           THEN Return(w, ErrNotFound, FALSE, NULL)
           ELSE /\ tx' = [tx EXCEPT ![w] = Update(w, "bank_accounts", LAMBDA r : SoftDelete(r, tx[w].now))]
                /\ frame' = [frame EXCEPT
                        ![w].pc = IF last THEN "UpdateClinic_ListBankAccountsByClinicID"
                                  ELSE "UpdateClinic_DeleteBankAccount",
                        ![w].wait = Nil,
                        ![w].i = f.i + 1]
                /\ UNCHANGED result
        /\ UNCHANGED <<db, nextID, clock, ops>>
        /\ UNCHANGED walk

\* The invariant check: the clinic's active accounts as the transaction sees them.
\* A variant that counts the clinic's removed accounts as well.
UpdateClinic_activeBankAccounts_WithRemoved(w) ==
    {k \in DOMAIN View(w, "bank_accounts") :
        View(w, "bank_accounts")[k].clinic_id = frame[w].clinicID}

\* A variant that does not count the accounts added by the request itself.
UpdateClinic_activeBankAccounts_WithoutAdded(w) ==
    ActiveBankAccounts(View(w, "bank_accounts"), frame[w].clinicID)
        \cap DOMAIN db.bank_accounts

UpdateClinic_activeBankAccounts(w) ==
    ActiveBankAccounts(View(w, "bank_accounts"), frame[w].clinicID)

\* qtx.ListBankAccountsByClinicID and the check on its length.
\* A variant without the check on the number of remaining accounts.
UpdateClinic_ListBankAccountsByClinicID_NoCheck(w) ==
    /\ frame[w].pc = "UpdateClinic_ListBankAccountsByClinicID"
    /\ frame' = [frame EXCEPT ![w].pc = "UpdateClinic_Commit"]
    /\ UNCHANGED <<db, tx, result, nextID, clock, ops>>
    /\ UNCHANGED walk

UpdateClinic_ListBankAccountsByClinicID(w) ==
    /\ frame[w].pc = "UpdateClinic_ListBankAccountsByClinicID"
    /\ IF Cardinality(UpdateClinic_activeBankAccounts(w)) = 0
       THEN Return(w, ErrValidation, FALSE, NULL)
       ELSE /\ frame' = [frame EXCEPT ![w].pc = "UpdateClinic_Commit"]
            /\ UNCHANGED <<tx, result>>
    /\ UNCHANGED <<db, nextID, clock, ops>>
    /\ UNCHANGED walk

\* tx.Commit(), then loadClinicSummary outside the transaction.
UpdateClinic_Commit(w) ==
    /\ frame[w].pc = "UpdateClinic_Commit"
    /\ db' = Committed(w)
    /\ tx' = [tx EXCEPT ![w] = NoTx]
    /\ frame' = [frame EXCEPT ![w].pc = "loadClinicSummary_GetClinicDetails",
                              ![w].persisted = TRUE]
    /\ UNCHANGED <<result, nextID, clock, ops>>
    /\ UNCHANGED walk

\* ------------------------------------------------------------ DeleteClinic

DeleteClinic_Begin(w) ==
    /\ Idle(w)
    /\ \E clinicID \in KnownIDs("clinics") :
        frame' = [frame EXCEPT ![w] =
            [IdleFrame EXCEPT !.pc = "DeleteClinic_GetClinicByID", !.op = "DeleteClinic",
                              !.clinicID = clinicID]]
    /\ ops' = ops + 1
    /\ BeginTx(w)
    /\ UNCHANGED <<db, result, nextID>>
    /\ UNCHANGED walk

DeleteClinic_GetClinicByID(w) ==
    LET f == frame[w]
    IN  /\ f.pc = "DeleteClinic_GetClinicByID"
        /\ IF LiveByID(w, "clinics", f.clinicID) = {}
           THEN Return(w, ErrNotFound, FALSE, NULL)
           ELSE /\ frame' = [frame EXCEPT
                        ![w].pc = "DeleteClinic_EndClinicDentistsByClinic",
                        ![w].clinic = [id |-> f.clinicID,
                                       person_id |-> View(w, "clinics")[f.clinicID].person_id]]
                /\ UNCHANGED <<tx, result>>
        /\ UNCHANGED <<db, nextID, clock, ops>>
        /\ UNCHANGED walk

\* The three UPDATEs of DeleteClinic; the number of rows affected is ignored.
DeleteClinic_EndClinicDentistsByClinic(w) ==
    /\ frame[w].pc = "DeleteClinic_EndClinicDentistsByClinic"
    /\ BlockedOn(w) = {}
    /\ tx' = [tx EXCEPT ![w] = Update(w, "clinic_dentists", LAMBDA r : EndLink(r, tx[w].now))]
    /\ frame' = [frame EXCEPT ![w].pc = "DeleteClinic_DeleteClinic", ![w].wait = Nil]
    /\ UNCHANGED <<db, result, nextID, clock, ops>>
    /\ UNCHANGED walk

DeleteClinic_DeleteClinic(w) ==
    /\ frame[w].pc = "DeleteClinic_DeleteClinic"
    /\ BlockedOn(w) = {}
    /\ tx' = [tx EXCEPT ![w] = Update(w, "clinics", LAMBDA r : SoftDelete(r, tx[w].now))]
    /\ frame' = [frame EXCEPT ![w].pc = "DeleteClinic_DeletePerson", ![w].wait = Nil]
    /\ UNCHANGED <<db, result, nextID, clock, ops>>
    /\ UNCHANGED walk

DeleteClinic_DeletePerson(w) ==
    /\ frame[w].pc = "DeleteClinic_DeletePerson"
    /\ BlockedOn(w) = {}
    /\ tx' = [tx EXCEPT ![w] = Update(w, "people", LAMBDA r : SoftDelete(r, tx[w].now))]
    /\ frame' = [frame EXCEPT ![w].pc = "DeleteClinic_Commit", ![w].wait = Nil]
    /\ UNCHANGED <<db, result, nextID, clock, ops>>
    /\ UNCHANGED walk

\* tx.Commit() and return nil
DeleteClinic_Commit(w) ==
    /\ frame[w].pc = "DeleteClinic_Commit"
    /\ db' = Committed(w)
    /\ Return(w, NULL, FALSE, NULL)
    /\ UNCHANGED <<nextID, clock, ops>>
    /\ UNCHANGED walk

\* --------------------------------------------------- CreateOrAttachDentist

\* A statement failed inside the transaction: PostgreSQL answers every later
\* statement of it with 25P02 until it is rolled back.
FailTx(w) == [tx[w] EXCEPT !.status = "failed"]

\* createDentist binds the body; CreateOrAttachDentist validates and begins.
CreateOrAttachDentist_Begin(w, bodies) ==
    /\ Idle(w)
    /\ \E clinicID \in KnownIDs("clinics"), body \in bodies :
        /\ ops' = ops + 1
        /\ IF CreateOrAttachDentistValidation(BindCreateDentistInput(body)) # NULL
           THEN /\ Reject(w, "CreateOrAttachDentist", clinicID, body,
                          CreateOrAttachDentistValidation(BindCreateDentistInput(body)))
                /\ UNCHANGED clock
           ELSE /\ frame' = [frame EXCEPT ![w] =
                        [IdleFrame EXCEPT !.pc = "CreateOrAttachDentist_GetClinicByID",
                                          !.op = "CreateOrAttachDentist",
                                          !.clinicID = clinicID,
                                          !.input = body,
                                          !.taxID = NormalizeCPF(body.tax_id_number)]]
                /\ BeginTx(w)
                /\ UNCHANGED result
    /\ UNCHANGED <<db, nextID>>
    /\ UNCHANGED walk

CreateOrAttachDentist_GetClinicByID(w) ==
    LET f == frame[w]
    IN  /\ f.pc = "CreateOrAttachDentist_GetClinicByID"
        /\ IF LiveByID(w, "clinics", f.clinicID) = {}
           THEN Return(w, ErrNotFound, FALSE, NULL)
           ELSE /\ frame' = [frame EXCEPT ![w].pc = "CreateOrAttachDentist_GetPersonByTaxID"]
                /\ UNCHANGED <<tx, result>>
        /\ UNCHANGED <<db, nextID, clock, ops>>
        /\ UNCHANGED walk

\* GetPersonByTaxID: WHERE tax_id_number = $1 AND deleted_at IS NULL
PersonByTaxID(w, taxID) ==
    {k \in Live("people", View(w, "people")) : View(w, "people")[k].tax_id_number = taxID}

\* A variant that does not look at the type of the person found.
CreateOrAttachDentist_GetPersonByTaxID_AnyType(w) ==
    LET f == frame[w]
        found == PersonByTaxID(w, f.taxID)
    IN  /\ f.pc = "CreateOrAttachDentist_GetPersonByTaxID"
        /\ IF found = {}
           THEN /\ frame' = [frame EXCEPT ![w].pc = "CreateOrAttachDentist_CreatePerson",
                                          ![w].personID = nextID]
                /\ nextID' = nextID + 1
           ELSE /\ \E k \in found :
                    frame' = [frame EXCEPT ![w].pc = "CreateOrAttachDentist_UpdatePerson",
                                           ![w].personID = k]
                /\ UNCHANGED nextID
        /\ UNCHANGED <<db, tx, result, clock, ops>>
        /\ UNCHANGED walk

\* The person is found, and is an individual or not; or it is to be created
\* under a new identifier.
CreateOrAttachDentist_GetPersonByTaxID(w) ==
    LET f == frame[w]
        found == PersonByTaxID(w, f.taxID)
    IN  /\ f.pc = "CreateOrAttachDentist_GetPersonByTaxID"
        /\ IF found = {}
           THEN /\ frame' = [frame EXCEPT ![w].pc = "CreateOrAttachDentist_CreatePerson",
                                          ![w].personID = nextID]
                /\ nextID' = nextID + 1
                /\ UNCHANGED <<tx, result>>
           ELSE \E k \in found :
                  IF View(w, "people")[k].person_type # "INDIVIDUAL"
                  THEN Return(w, ErrConflict, FALSE, NULL) /\ UNCHANGED nextID
                  ELSE /\ frame' = [frame EXCEPT ![w].pc = "CreateOrAttachDentist_UpdatePerson",
                                                 ![w].personID = k]
                       /\ UNCHANGED <<tx, result, nextID>>
        /\ UNCHANGED <<db, clock, ops>>
        /\ UNCHANGED walk

\* qtx.CreatePerson; on a unique violation the use-case goes on to re-read.
CreateOrAttachDentist_CreatePerson(w) ==
    LET f == frame[w]
        row == CreateOrAttachDentist_PersonRow(f)
    IN  /\ f.pc = "CreateOrAttachDentist_CreatePerson"
        /\ BlockedOn(w) = {}
        /\ IF UniqueViolation(w, "people", row)
           THEN /\ tx' = [tx EXCEPT ![w] = FailTx(w)]
                /\ frame' = [frame EXCEPT ![w].pc = "CreateOrAttachDentist_RereadPerson"]
           ELSE /\ tx' = [tx EXCEPT ![w] = Insert(w, "people", f.personID, row, {})]
                /\ frame' = [frame EXCEPT ![w].pc = "CreateOrAttachDentist_UpdatePerson"]
        /\ UNCHANGED <<db, result, nextID, clock, ops>>
        /\ UNCHANGED walk

\* qtx.UpdatePerson with the request's name, email and phone.
CreateOrAttachDentist_UpdatePerson(w) ==
    LET f == frame[w]
    IN  /\ f.pc = "CreateOrAttachDentist_UpdatePerson"
        /\ BlockedOn(w) = {}
        /\ IF Affected(w) = {}
           THEN Return(w, mapDatabaseError(SqlErrNoRows), FALSE, NULL)
           ELSE /\ tx' = [tx EXCEPT ![w] =
                        Update(w, "people", LAMBDA r : CreateOrAttachDentist_PersonPatch(f, r))]
                /\ frame' = [frame EXCEPT ![w].pc = "CreateOrAttachDentist_GetDentistByPersonID",
                                          ![w].wait = Nil]
                /\ UNCHANGED result
        /\ UNCHANGED <<db, nextID, clock, ops>>
        /\ UNCHANGED walk

\* GetDentistByPersonID: WHERE person_id = $1 AND deleted_at IS NULL
DentistByPersonID(w, personID) ==
    {k \in Live("dentists", View(w, "dentists")) : View(w, "dentists")[k].person_id = personID}

CreateOrAttachDentist_GetDentistByPersonID(w) ==
    LET f == frame[w]
        found == DentistByPersonID(w, f.personID)
    IN  /\ f.pc = "CreateOrAttachDentist_GetDentistByPersonID"
        /\ IF found = {}
           THEN /\ frame' = [frame EXCEPT ![w].pc = "CreateOrAttachDentist_CreateDentist",
                                          ![w].dentistID = nextID]
                /\ nextID' = nextID + 1
           ELSE /\ \E k \in found :
                    frame' = [frame EXCEPT ![w].pc = "CreateOrAttachDentist_GetActiveClinicDentist",
                                           ![w].dentistID = k]
                /\ UNCHANGED nextID
        /\ UNCHANGED <<db, tx, result, clock, ops>>
        /\ UNCHANGED walk

CreateOrAttachDentist_CreateDentist(w) ==
    LET f == frame[w]
        row == [person_id |-> f.personID, deleted_at |-> Nil]
    IN  /\ f.pc = "CreateOrAttachDentist_CreateDentist"
        /\ BlockedOn(w) = {}
        /\ IF UniqueViolation(w, "dentists", row)
           THEN /\ tx' = [tx EXCEPT ![w] = FailTx(w)]
                /\ frame' = [frame EXCEPT ![w].pc = "CreateOrAttachDentist_RereadDentist"]
           ELSE /\ tx' = [tx EXCEPT ![w] = Insert(w, "dentists", f.dentistID, row, {})]
                /\ frame' = [frame EXCEPT
                        ![w].pc = "CreateOrAttachDentist_GetActiveClinicDentist"]
        /\ UNCHANGED <<db, result, nextID, clock, ops>>
        /\ UNCHANGED walk

CreateOrAttachDentist_GetActiveClinicDentist(w) ==
    LET f == frame[w]
    IN  /\ f.pc = "CreateOrAttachDentist_GetActiveClinicDentist"
        /\ frame' = [frame EXCEPT ![w].pc =
                IF ActiveLinks(View(w, "clinic_dentists"), f.clinicID, f.dentistID) = {}
                THEN "CreateOrAttachDentist_CreateClinicDentist"
                ELSE "CreateOrAttachDentist_UpdateClinicDentistRole"]
        /\ UNCHANGED <<db, tx, result, nextID, clock, ops>>
        /\ UNCHANGED walk

\* qtx.CreateClinicDentist with StartedAt: time.Now(); created = true when it
\* succeeds.
CreateOrAttachDentist_CreateClinicDentist(w) ==
    LET f == frame[w]
        row == ClinicDentistRow(f, clock)
    IN  /\ f.pc = "CreateOrAttachDentist_CreateClinicDentist"
        /\ BlockedOn(w) = {}
        /\ clock' = clock + 1
        /\ IF UniqueViolation(w, "clinic_dentists", row)
           THEN /\ tx' = [tx EXCEPT ![w] = FailTx(w)]
                /\ frame' = [frame EXCEPT ![w].pc = "CreateOrAttachDentist_RereadClinicDentist"]
           ELSE /\ tx' = [tx EXCEPT ![w] =
                        Insert(w, "clinic_dentists", <<f.clinicID, f.dentistID, clock>>, row,
                               {f.clinicID})]
                /\ frame' = [frame EXCEPT ![w].pc = "CreateOrAttachDentist_Commit",
                                          ![w].created = TRUE,
                                          ![w].relation = row]
        /\ UNCHANGED <<db, result, nextID, ops>>
        /\ UNCHANGED walk

\* The re-read that follows a unique violation of CreatePerson, CreateDentist
\* or CreateClinicDentist: the second GetPersonByTaxID, GetDentistByPersonID
\* or GetActiveClinicDentist, in the transaction whose INSERT failed.  Its
\* error is returned through mapDatabaseError; a row it found would let the
\* use-case go on.
CreateOrAttachDentist_Reread(w) ==
    LET f == frame[w]
        people == PersonByTaxID(w, f.taxID)
        dentists == DentistByPersonID(w, f.personID)
        links == ActiveLinks(View(w, "clinic_dentists"), f.clinicID, f.dentistID)
        found == CASE f.pc = "CreateOrAttachDentist_RereadPerson" -> people
                   [] f.pc = "CreateOrAttachDentist_RereadDentist" -> dentists
                   [] OTHER -> links
    IN  /\ f.pc \in {"CreateOrAttachDentist_RereadPerson", "CreateOrAttachDentist_RereadDentist",
                     "CreateOrAttachDentist_RereadClinicDentist"}
        /\ IF tx[w].status = "failed"
           THEN Return(w, mapDatabaseError(PgInFailedTransaction), FALSE, NULL)
           ELSE IF found = {}
           THEN Return(w, mapDatabaseError(SqlErrNoRows), FALSE, NULL)
           ELSE IF f.pc = "CreateOrAttachDentist_RereadPerson"
           THEN \E k \in people :
                  IF View(w, "people")[k].person_type # "INDIVIDUAL"
                  THEN Return(w, ErrConflict, FALSE, NULL)
                  ELSE /\ frame' = [frame EXCEPT ![w].pc = "CreateOrAttachDentist_UpdatePerson",
                                                 ![w].personID = k]
                       /\ UNCHANGED <<tx, result>>
           ELSE IF f.pc = "CreateOrAttachDentist_RereadDentist"
           THEN /\ \E k \in dentists :
                    frame' = [frame EXCEPT ![w].pc = "CreateOrAttachDentist_GetActiveClinicDentist",
                                           ![w].dentistID = k]
                /\ UNCHANGED <<tx, result>>
           ELSE /\ frame' = [frame EXCEPT
                        ![w].pc = "CreateOrAttachDentist_UpdateClinicDentistRole"]
                /\ UNCHANGED <<tx, result>>
        /\ UNCHANGED <<db, nextID, clock, ops>>
        /\ UNCHANGED walk

\* qtx.UpdateClinicDentistRole with both flags Valid: true.
CreateOrAttachDentist_UpdateClinicDentistRole(w) ==
    LET f == frame[w]
        input == BindCreateDentistInput(f.input)
        set(r) == UpdateRoleRow(r, Some(input.is_admin), Some(input.is_legal_representative))
    IN  /\ f.pc = "CreateOrAttachDentist_UpdateClinicDentistRole"
        /\ BlockedOn(w) = {}
        /\ IF Affected(w) = {}
           THEN Return(w, mapDatabaseError(SqlErrNoRows), FALSE, NULL)
           ELSE /\ tx' = [tx EXCEPT ![w] = Update(w, "clinic_dentists", set)]
                /\ \E k \in Affected(w) :
                    frame' = [frame EXCEPT ![w].pc = "CreateOrAttachDentist_Commit",
                                           ![w].wait = Nil,
                                           ![w].relation = set(View(w, "clinic_dentists")[k])]
                /\ UNCHANGED result
        /\ UNCHANGED <<db, nextID, clock, ops>>
        /\ UNCHANGED walk

\* The ClinicDentistOutput built from person, dentist and relation.
ClinicDentistOutput(dentistID, personID, person, relation) ==
    [id |-> dentistID, person_id |-> personID, legal_name |-> person.legal_name,
     tax_id_number |-> person.tax_id_number, email |-> person.email, phone |-> person.phone,
     is_admin |-> relation.is_admin,
     is_legal_representative |-> relation.is_legal_representative,
     started_at |-> relation.started_at]

\* tx.Commit() and the return of the output with created.
CreateOrAttachDentist_Commit(w) ==
    LET f == frame[w]
    IN  /\ f.pc = "CreateOrAttachDentist_Commit"
        /\ db' = Committed(w)
        /\ Return(w, NULL, f.created,
                  ClinicDentistOutput(f.dentistID, f.personID, View(w, "people")[f.personID],
                                      f.relation))
        /\ UNCHANGED <<nextID, clock, ops>>
        /\ UNCHANGED walk

\* ------------------------------------------------- UpdateClinicDentistRole

\* The use-case runs its two queries on s.queries, outside any transaction.
UpdateClinicDentistRole_Begin(w, inputs) ==
    /\ Idle(w)
    /\ \E clinicID \in KnownIDs("clinics"), dentistID \in KnownIDs("dentists"), input \in inputs :
        IF ~input.is_admin.valid /\ ~input.is_legal_representative.valid
        THEN Reject(w, "UpdateClinicDentistRole", clinicID, input, ErrValidation)
        ELSE /\ frame' = [frame EXCEPT ![w] =
                    [IdleFrame EXCEPT !.pc = "UpdateClinicDentistRole_UpdateClinicDentistRole",
                                      !.op = "UpdateClinicDentistRole",
                                      !.clinicID = clinicID,
                                      !.dentistID = dentistID,
                                      !.input = input]]
             /\ UNCHANGED <<tx, result>>
    /\ ops' = ops + 1
    /\ UNCHANGED <<db, nextID, clock>>
    /\ UNCHANGED walk

UpdateClinicDentistRole_UpdateClinicDentistRole(w) ==
    LET f == frame[w]
        set(r) == UpdateRoleRow(r, optionalBool(f.input.is_admin),
                                optionalBool(f.input.is_legal_representative))
    IN  /\ f.pc = "UpdateClinicDentistRole_UpdateClinicDentistRole"
        /\ BlockedOn(w) = {}
        /\ IF Affected(w) = {}
           THEN Return(w, ErrNotFound, FALSE, NULL) /\ UNCHANGED db
           ELSE /\ db' = AutoCommit(w, "clinic_dentists", set)
                /\ \E k \in Affected(w) :
                    frame' = [frame EXCEPT
                        ![w].pc = "UpdateClinicDentistRole_GetDentistDetailsByID",
                        ![w].wait = Nil,
                        ![w].persisted = TRUE,
                        ![w].relation = set(db.clinic_dentists[k])]
                /\ UNCHANGED <<tx, result>>
        /\ UNCHANGED <<nextID, clock, ops>>
        /\ UNCHANGED walk

UpdateClinicDentistRole_GetDentistDetailsByID(w) ==
    LET f == frame[w]
        details == GetDentistDetailsByID(db, f.dentistID)
    IN  /\ f.pc = "UpdateClinicDentistRole_GetDentistDetailsByID"
        /\ IF ~details.valid
           THEN Return(w, ErrNotFound, FALSE, NULL)
           ELSE Return(w, NULL, FALSE,
                       ClinicDentistOutput(details.dentist_id, details.person_id, details,
                                           f.relation))
        /\ UNCHANGED <<db, nextID, clock, ops>>
        /\ UNCHANGED walk

\* ------------------------------------------------- UnlinkDentistFromClinic

UnlinkDentistFromClinic_Begin(w) ==
    /\ Idle(w)
    /\ \E clinicID \in KnownIDs("clinics"), dentistID \in KnownIDs("dentists") :
        frame' = [frame EXCEPT ![w] =
            [IdleFrame EXCEPT !.pc = "UnlinkDentistFromClinic_GetActiveClinicDentist",
                              !.op = "UnlinkDentistFromClinic",
                              !.clinicID = clinicID,
                              !.dentistID = dentistID]]
    /\ ops' = ops + 1
    /\ UNCHANGED <<db, tx, result, nextID, clock>>
    /\ UNCHANGED walk

UnlinkDentistFromClinic_GetActiveClinicDentist(w) ==
    LET f == frame[w]
    IN  /\ f.pc = "UnlinkDentistFromClinic_GetActiveClinicDentist"
        /\ IF ActiveLinks(db.clinic_dentists, f.clinicID, f.dentistID) = {}
           THEN Return(w, ErrNotFound, FALSE, NULL)
           ELSE /\ frame' = [frame EXCEPT
                        ![w].pc = "UnlinkDentistFromClinic_CountActiveClinicLinksByDentist"]
                /\ UNCHANGED <<tx, result>>
        /\ UNCHANGED <<db, nextID, clock, ops>>
        /\ UNCHANGED walk

UnlinkDentistFromClinic_CountActiveClinicLinksByDentist(w) ==
    LET f == frame[w]
        activeLinks == Cardinality(ActiveLinksByDentist(db.clinic_dentists, f.dentistID))
    IN  /\ f.pc = "UnlinkDentistFromClinic_CountActiveClinicLinksByDentist"
        /\ IF activeLinks <= 1
           THEN Return(w, ErrConflict, FALSE, NULL)
           ELSE /\ frame' = [frame EXCEPT ![w].pc = "UnlinkDentistFromClinic_EndClinicDentist"]
                /\ UNCHANGED <<tx, result>>
        /\ UNCHANGED <<db, nextID, clock, ops>>
        /\ UNCHANGED walk

\* A variant that does not look at the number of rows affected.
UnlinkDentistFromClinic_EndClinicDentist_NoRowCheck(w) ==
    LET f == frame[w]
    IN  /\ f.pc = "UnlinkDentistFromClinic_EndClinicDentist"
        /\ BlockedOn(w) = {}
        /\ db' = AutoCommit(w, "clinic_dentists", LAMBDA r : EndLink(r, clock))
        /\ clock' = clock + 1
        /\ Return(w, NULL, FALSE, NULL)
        /\ UNCHANGED <<nextID, ops>>
        /\ UNCHANGED walk

\* EndClinicDentist outside a transaction; NotFound when it affects no row.
UnlinkDentistFromClinic_EndClinicDentist(w) ==
    LET f == frame[w]
    IN  /\ f.pc = "UnlinkDentistFromClinic_EndClinicDentist"
        /\ BlockedOn(w) = {}
        /\ IF Affected(w) = {}
           THEN Return(w, ErrNotFound, FALSE, NULL) /\ UNCHANGED <<db, clock>>
           ELSE /\ db' = AutoCommit(w, "clinic_dentists", LAMBDA r : EndLink(r, clock))
                /\ clock' = clock + 1
                /\ Return(w, NULL, FALSE, NULL)
        /\ UNCHANGED <<nextID, ops>>
        /\ UNCHANGED walk

\* ----------------------------------------------------------- UpdateDentist

UpdateDentist_Begin(w, inputs) ==
    /\ Idle(w)
    /\ \E dentistID \in KnownIDs("dentists"), input \in inputs :
        IF UpdateDentistValidation(input) # NULL
        THEN Reject(w, "UpdateDentist", NULL, input, UpdateDentistValidation(input))
        ELSE /\ frame' = [frame EXCEPT ![w] =
                    [IdleFrame EXCEPT !.pc = "UpdateDentist_GetDentistByID",
                                      !.op = "UpdateDentist",
                                      !.dentistID = dentistID,
                                      !.input = input]]
             /\ UNCHANGED <<tx, result>>
    /\ ops' = ops + 1
    /\ UNCHANGED <<db, nextID, clock>>
    /\ UNCHANGED walk

UpdateDentist_GetDentistByID(w) ==
    LET f == frame[w]
    IN  /\ f.pc = "UpdateDentist_GetDentistByID"
        /\ IF LiveByID(w, "dentists", f.dentistID) = {}
           THEN Return(w, ErrNotFound, FALSE, NULL)
           ELSE /\ frame' = [frame EXCEPT ![w].pc = "UpdateDentist_UpdatePerson",
                                          ![w].personID = db.dentists[f.dentistID].person_id]
                /\ UNCHANGED <<tx, result>>
        /\ UNCHANGED <<db, nextID, clock, ops>>
        /\ UNCHANGED walk

\* The DentistOutput built from dentist and person.
DentistOutput(dentistID, personID, person) ==
    [id |-> dentistID, person_id |-> personID, legal_name |-> person.legal_name,
     tax_id_number |-> person.tax_id_number, email |-> person.email, phone |-> person.phone]

\* UpdatePerson outside a transaction (:one, so no row is sql.ErrNoRows).
UpdateDentist_UpdatePerson(w) ==
    LET f == frame[w]
        patch(r) == UpdatePersonRow(r, optionalString(f.input.legal_name), NULL,
                                    optionalString(f.input.email), optionalString(f.input.phone))
    IN  /\ f.pc = "UpdateDentist_UpdatePerson"
        /\ BlockedOn(w) = {}
        /\ IF Affected(w) = {}
           THEN Return(w, mapDatabaseError(SqlErrNoRows), FALSE, NULL) /\ UNCHANGED db
           ELSE /\ db' = AutoCommit(w, "people", patch)
                /\ Return(w, NULL, FALSE,
                          DentistOutput(f.dentistID, f.personID, patch(db.people[f.personID])))
        /\ UNCHANGED <<nextID, clock, ops>>
        /\ UNCHANGED walk

\* ----------------------------------------------------------- DeleteDentist

DeleteDentist_Begin(w) ==
    /\ Idle(w)
    /\ \E dentistID \in KnownIDs("dentists") :
        frame' = [frame EXCEPT ![w] =
            [IdleFrame EXCEPT !.pc = "DeleteDentist_GetDentistByID", !.op = "DeleteDentist",
                              !.dentistID = dentistID]]
    /\ ops' = ops + 1
    /\ BeginTx(w)
    /\ UNCHANGED <<db, result, nextID>>
    /\ UNCHANGED walk

DeleteDentist_GetDentistByID(w) ==
    LET f == frame[w]
    IN  /\ f.pc = "DeleteDentist_GetDentistByID"
        /\ IF LiveByID(w, "dentists", f.dentistID) = {}
           THEN Return(w, ErrNotFound, FALSE, NULL)
           ELSE /\ frame' = [frame EXCEPT
                        ![w].pc = "DeleteDentist_EndClinicDentistsByDentist",
                        ![w].personID = View(w, "dentists")[f.dentistID].person_id]
                /\ UNCHANGED <<tx, result>>
        /\ UNCHANGED <<db, nextID, clock, ops>>
        /\ UNCHANGED walk

\* The three UPDATEs of DeleteDentist; the number of rows affected is ignored.
DeleteDentist_EndClinicDentistsByDentist(w) ==
    /\ frame[w].pc = "DeleteDentist_EndClinicDentistsByDentist"
    /\ BlockedOn(w) = {}
    /\ tx' = [tx EXCEPT ![w] = Update(w, "clinic_dentists", LAMBDA r : EndLink(r, tx[w].now))]
    /\ frame' = [frame EXCEPT ![w].pc = "DeleteDentist_DeleteDentist", ![w].wait = Nil]
    /\ UNCHANGED <<db, result, nextID, clock, ops>>
    /\ UNCHANGED walk

DeleteDentist_DeleteDentist(w) ==
    /\ frame[w].pc = "DeleteDentist_DeleteDentist"
    /\ BlockedOn(w) = {}
    /\ tx' = [tx EXCEPT ![w] = Update(w, "dentists", LAMBDA r : SoftDelete(r, tx[w].now))]
    /\ frame' = [frame EXCEPT ![w].pc = "DeleteDentist_DeletePerson", ![w].wait = Nil]
    /\ UNCHANGED <<db, result, nextID, clock, ops>>
    /\ UNCHANGED walk

DeleteDentist_DeletePerson(w) ==
    /\ frame[w].pc = "DeleteDentist_DeletePerson"
    /\ BlockedOn(w) = {}
    /\ tx' = [tx EXCEPT ![w] = Update(w, "people", LAMBDA r : SoftDelete(r, tx[w].now))]
    /\ frame' = [frame EXCEPT ![w].pc = "DeleteDentist_Commit", ![w].wait = Nil]
    /\ UNCHANGED <<db, result, nextID, clock, ops>>
    /\ UNCHANGED walk

\* tx.Commit() and return nil
DeleteDentist_Commit(w) ==
    /\ frame[w].pc = "DeleteDentist_Commit"
    /\ db' = Committed(w)
    /\ Return(w, NULL, FALSE, NULL)
    /\ UNCHANGED <<nextID, clock, ops>>
    /\ UNCHANGED walk

\* ----------------------------------------------------- cursor pagination

\* The handler's and the service's limits.
defaultCursorLimit == 20
maxCursorLimit == 100
defaultLimit == 20
maxLimit == 100

\* The 400 answer of a handler whose path or query parameter does not parse.
problemTypeInvalidParam == "invalid-parameter"

\* A cursor or identifier string, with what uuid.Parse makes of it: Nil is
\* the parse error.
Text(text) == [text |-> text, uuid |-> Nil]
UUIDText(id, version) == [text |-> "uuid", uuid |-> Some([id |-> id, version |-> version])]
uuid_Parse(s) == s.uuid

\* A well-formed UUID of version 4; it sorts before every stored identifier.
NotV7 == UUIDText(1, 4)

RECURSIVE DecimalValue(_)
DecimalValue(s) ==
    IF s = <<>> THEN 0
    ELSE 10 * DecimalValue(SubSeq(s, 1, Len(s) - 1)) + CharVal(s[Len(s)])

\* strconv.Atoi: an optional sign and then decimal digits only; Nil is the
\* error.
Atoi(s) ==
    LET signed == s # <<>> /\ Head(s) \in {"+", "-"}
        ds == IF signed THEN Tail(s) ELSE s
    IN  IF ds = <<>> \/ \E i \in DOMAIN ds : ~IsDigit(ds[i]) THEN Nil
        ELSE IF signed /\ Head(s) = "-" THEN Some(0 - DecimalValue(ds))
        ELSE Some(DecimalValue(ds))

\* parseCursorPagination: the limit and cursor query parameters.
parseCursorPagination(rawLimit, rawCursor) ==
    LET trimmed == TrimSpaceSeq(rawLimit)
        parsedLimit == Atoi(trimmed)
        limit == IF trimmed = <<>> THEN defaultCursorLimit ELSE parsedLimit.value
        parsedCursor == uuid_Parse(rawCursor)
        failed == [err |-> problemTypeInvalidParam, limit |-> 0, cursor |-> Nil]
    IN  IF trimmed # <<>> /\ ~parsedLimit.valid THEN failed
        ELSE IF trimmed # <<>> /\ (parsedLimit.value < 1 \/ parsedLimit.value > maxCursorLimit)
        THEN failed
        ELSE IF TrimSpace(rawCursor.text) = ""
        THEN [err |-> NULL, limit |-> limit, cursor |-> Nil]
        ELSE IF ~parsedCursor.valid \/ parsedCursor.value.version # 7 THEN failed
        ELSE [err |-> NULL, limit |-> limit, cursor |-> Some(rawCursor)]

\* normalizeCursorLimit
normalizeCursorLimit(limit) ==
    IF limit <= 0 THEN defaultLimit
    ELSE IF limit > maxLimit THEN maxLimit
    ELSE limit

Min(a, b) == IF a <= b THEN a ELSE b

\* A variant whose page begins at the cursor: c.id >= after_id.
ListClinicDetailsCursor_FromCursor(d, afterID, pageLimit) ==
    LET ids == SortedSeq({c \in DOMAIN d.clinics :
                    /\ GetClinicDetails(d, c).valid
                    /\ (afterID.valid => c >= afterID.value)})
    IN  [i \in 1..Min(Len(ids), pageLimit) |-> GetClinicDetails(d, ids[i])]

\* A variant that also lists the deleted clinics.
ListClinicDetailsCursor_WithDeleted(d, afterID, pageLimit) ==
    LET ids == SortedSeq({c \in DOMAIN d.clinics : afterID.valid => c > afterID.value})
    IN  [i \in 1..Min(Len(ids), pageLimit) |->
            [GetClinicDetails([d EXCEPT !.clinics[ids[i]].deleted_at = Nil,
                                        !.people[d.clinics[ids[i]].person_id].deleted_at = Nil],
                              ids[i])
             EXCEPT !.valid = TRUE]]

\* ListClinicDetailsCursor: clinics joined with their people, none deleted,
\* c.id > after_id when after_id is not NULL, ORDER BY c.id LIMIT page_limit.
ListClinicDetailsCursor(d, afterID, pageLimit) ==
    LET ids == SortedSeq({c \in DOMAIN d.clinics :
                    /\ GetClinicDetails(d, c).valid
                    /\ (afterID.valid => c > afterID.value)})
    IN  [i \in 1..Min(Len(ids), pageLimit) |-> GetClinicDetails(d, ids[i])]

\* ListDentistsByClinicIDCursor: the clinic's active links joined with
\* dentists, people and clinics, none deleted, d.id > after_dentist_id when
\* that is not NULL, ORDER BY d.id LIMIT page_limit.
ListDentistsByClinicIDCursor(d, clinicID, afterDentistID, pageLimit) ==
    LET ids == SelectSeq(ListDentistsByClinicID(d, clinicID),
                         LAMBDA id : afterDentistID.valid => id > afterDentistID.value)
        link(id) == CHOOSE k \in ActiveLinks(d.clinic_dentists, clinicID, id) : TRUE
    IN  [i \in 1..Min(Len(ids), pageLimit) |->
            [details |-> GetDentistDetailsByID(d, ids[i]),
             relation |-> d.clinic_dentists[link(ids[i])]]]

\* mapDentistCursorRow
mapDentistCursorRow(row) ==
    ClinicDentistOutput(row.details.dentist_id, row.details.person_id, row.details,
                        row.relation)

\* ------------------------------------------------ the client's page walk

\* A list call may start while the client has calls left.
ListIdle(w) == frame[w].pc \in {"idle"} \cup ProtectedHandlers /\ walk.calls < MaxPages

\* A call without cursor begins the walk; a call of the same client for the
\* same list and limit with the nextCursor of the page before continues it.
Joins(w, kind, clinicID, limit, cursor) ==
    IF walk.kind = "none" THEN ~cursor.valid
    ELSE /\ walk.kind = kind /\ walk.w = w /\ walk.clinicID = clinicID
         /\ walk.limit = limit /\ ~walk.fetching /\ ~walk.done
         /\ cursor.valid
         /\ cursor = walk.pages[Len(walk.pages)].nextCursor

Called(w, kind, clinicID, limit, cursor) ==
    IF Joins(w, kind, clinicID, limit, cursor)
    THEN [walk EXCEPT !.calls = @ + 1, !.kind = kind, !.w = w, !.clinicID = clinicID,
                      !.limit = limit, !.fetching = TRUE]
    ELSE [walk EXCEPT !.calls = @ + 1]

\* The page of a call that is part of the walk is added to it; the walk ends
\* with the page that has no nextCursor.
Received(w, ids, nextCursor) ==
    IF walk.fetching /\ walk.w = w
    THEN [walk EXCEPT !.pages = Append(@, [ids |-> ids, nextCursor |-> nextCursor]),
                      !.fetching = FALSE, !.done = ~nextCursor.valid]
    ELSE walk

\* A call of the walk that returns an error ends it.
Failed(w) ==
    IF walk.fetching /\ walk.w = w
    THEN [walk EXCEPT !.fetching = FALSE, !.done = TRUE]
    ELSE walk

\* The limits and cursors a caller of the service passes, and the query
\* strings a client sends.
Limits == {0 - 1, 0, 1, 2, 101}
Cursors(ids) ==
    {Nil, Some(Text("")), Some(Text("invalid")), Some(NotV7)}
    \cup {Some(UUIDText(id, 7)) : id \in ids}
RawLimits ==
    {<<>>, <<" ">>, <<"0">>, <<"1">>, <<" ", "2">>, <<"-", "1">>, <<"1", "0", "0">>,
     <<"1", "0", "1">>, <<"x">>}
RawCursors(ids) ==
    {Text(""), Text("  "), Text("invalid"), NotV7} \cup {UUIDText(id, 7) : id \in ids}

\* The walking client: small pages, no cursor or the one it was given.
WalkLimits == {1, 2}
WalkCursors == {Nil} \cup {walk.pages[i].nextCursor : i \in DOMAIN walk.pages}

\* --------------------------------------------------- ListClinicsWithCursor

\* normalizeCursorLimit and uuid.Parse of the cursor, before the first query.
ListClinicsWithCursor_Call(w, op, input, limit, cursor) ==
    IF cursor.valid /\ ~uuid_Parse(cursor.value).valid
    THEN /\ Reject(w, op, NULL, input, ErrValidation)
         /\ walk' = [walk EXCEPT !.calls = @ + 1]
    ELSE /\ frame' = [frame EXCEPT ![w] =
                [IdleFrame EXCEPT !.pc = "ListClinicsWithCursor_ListClinicDetailsCursor",
                                  !.op = op,
                                  !.input = input,
                                  !.pageLimit = normalizeCursorLimit(limit),
                                  !.afterID = IF cursor.valid
                                              THEN Some(uuid_Parse(cursor.value).value.id)
                                              ELSE Nil]]
         /\ walk' = Called(w, "clinics", 0, limit, cursor)
         /\ UNCHANGED <<tx, result>>

\* A caller of the service.
ListClinicsWithCursor_Begin(w, limits, cursors) ==
    /\ ListIdle(w)
    /\ \E limit \in limits, cursor \in cursors :
        ListClinicsWithCursor_Call(w, "ListClinicsWithCursor",
                                   [limit |-> limit, cursor |-> cursor], limit, cursor)
    /\ UNCHANGED <<db, nextID, clock, ops>>

\* GET /clinics: parseCursorPagination, then the service.
listClinics(w, rawLimits, rawCursors) ==
    /\ ListIdle(w)
    /\ \E rawLimit \in rawLimits, rawCursor \in rawCursors :
        LET parsed == parseCursorPagination(rawLimit, rawCursor)
            query == [limit |-> rawLimit, cursor |-> rawCursor]
        IN  IF parsed.err # NULL
            THEN /\ Reject(w, "listClinics", NULL, query, parsed.err)
                 /\ walk' = [walk EXCEPT !.calls = @ + 1]
            ELSE ListClinicsWithCursor_Call(w, "listClinics", query, parsed.limit,
                                            parsed.cursor)
    /\ UNCHANGED <<db, nextID, clock, ops>>

\* s.queries.ListClinicDetailsCursor with pageLimit + 1, hasNext and the cut
\* to pageLimit rows.
ListClinicsWithCursor_ListClinicDetailsCursor(w) ==
    LET f == frame[w]
        rows == ListClinicDetailsCursor(db, f.afterID, f.pageLimit + 1)
        hasNext == Len(rows) > f.pageLimit
    IN  /\ f.pc = "ListClinicsWithCursor_ListClinicDetailsCursor"
        /\ frame' = [frame EXCEPT
                ![w].pc = "ListClinicsWithCursor_loadClinicDentistIDsByClinicIDs",
                ![w].rows = IF hasNext THEN SubSeq(rows, 1, f.pageLimit) ELSE rows,
                ![w].hasNext = hasNext]
        /\ UNCHANGED <<db, tx, result, nextID, clock, ops, walk>>

\* loadClinicDentistIDsByClinicIDs (s.queries.ListDentistsByClinicIDs), the
\* outputs and nextCursor.
ListClinicsWithCursor_loadClinicDentistIDsByClinicIDs(w) ==
    LET f == frame[w]
        clinics == [i \in DOMAIN f.rows |->
                        mapClinicSummary(f.rows[i],
                                         ListDentistsByClinicID(db, f.rows[i].clinic_id))]
        nextCursor == IF f.hasNext /\ Len(f.rows) > 0
                      THEN Some(UUIDText(f.rows[Len(f.rows)].clinic_id, 7))
                      ELSE Nil
    IN  /\ f.pc = "ListClinicsWithCursor_loadClinicDentistIDsByClinicIDs"
        /\ Return(w, NULL, FALSE, [items |-> clinics, nextCursor |-> nextCursor])
        /\ walk' = Received(w, [i \in DOMAIN f.rows |-> f.rows[i].clinic_id], nextCursor)
        /\ UNCHANGED <<db, nextID, clock, ops>>

\* -------------------------------------------- ListClinicDentistsWithCursor

ListClinicDentistsWithCursor_Call(w, op, clinicID, input, limit, cursor) ==
    /\ frame' = [frame EXCEPT ![w] =
            [IdleFrame EXCEPT !.pc = "ListClinicDentistsWithCursor_GetClinicByID",
                              !.op = op,
                              !.clinicID = clinicID,
                              !.input = input,
                              !.pageLimit = normalizeCursorLimit(limit),
                              !.cursor = cursor]]
    /\ walk' = Called(w, "dentists", clinicID, limit, cursor)
    /\ UNCHANGED <<tx, result>>

\* A caller of the service.
ListClinicDentistsWithCursor_Begin(w, limits, cursors) ==
    /\ ListIdle(w)
    /\ \E clinicID \in KnownIDs("clinics"), limit \in limits, cursor \in cursors :
        ListClinicDentistsWithCursor_Call(w, "ListClinicDentistsWithCursor", clinicID,
                                          [limit |-> limit, cursor |-> cursor], limit, cursor)
    /\ UNCHANGED <<db, nextID, clock, ops>>

\* GET /clinics/:id/dentists: parseID, parseCursorPagination, then the
\* service.
listClinicDentists(w, rawLimits, rawCursors) ==
    /\ ListIdle(w)
    /\ \E clinicID \in KnownIDs("clinics") \cup {BadID},
          rawLimit \in rawLimits, rawCursor \in rawCursors :
        LET parsed == parseCursorPagination(rawLimit, rawCursor)
            query == [limit |-> rawLimit, cursor |-> rawCursor]
        IN  IF ~IsUUIDv7(clinicID)
            THEN /\ Reject(w, "listClinicDentists", clinicID, query, problemTypeInvalidParam)
                 /\ walk' = [walk EXCEPT !.calls = @ + 1]
            ELSE IF parsed.err # NULL
            THEN /\ Reject(w, "listClinicDentists", clinicID, query, parsed.err)
                 /\ walk' = [walk EXCEPT !.calls = @ + 1]
            ELSE ListClinicDentistsWithCursor_Call(w, "listClinicDentists", clinicID, query,
                                                   parsed.limit, parsed.cursor)
    /\ UNCHANGED <<db, nextID, clock, ops>>

\* s.queries.GetClinicByID, then uuid.Parse of the cursor.
ListClinicDentistsWithCursor_GetClinicByID(w) ==
    LET f == frame[w]
    IN  /\ f.pc = "ListClinicDentistsWithCursor_GetClinicByID"
        /\ IF LiveByID(w, "clinics", f.clinicID) = {}
           THEN Return(w, ErrNotFound, FALSE, NULL) /\ walk' = Failed(w)
           ELSE IF f.cursor.valid /\ ~uuid_Parse(f.cursor.value).valid
           THEN Return(w, ErrValidation, FALSE, NULL) /\ walk' = Failed(w)
           ELSE /\ frame' = [frame EXCEPT
                        ![w].pc = "ListClinicDentistsWithCursor_ListDentistsByClinicIDCursor",
                        ![w].afterID = IF f.cursor.valid
                                       THEN Some(uuid_Parse(f.cursor.value).value.id)
                                       ELSE Nil]
                /\ UNCHANGED <<tx, result, walk>>
        /\ UNCHANGED <<db, nextID, clock, ops>>

\* s.queries.ListDentistsByClinicIDCursor with pageLimit + 1, hasNext, the
\* cut to pageLimit rows, the outputs and nextCursor.
ListClinicDentistsWithCursor_ListDentistsByClinicIDCursor(w) ==
    LET f == frame[w]
        fetched == ListDentistsByClinicIDCursor(db, f.clinicID, f.afterID, f.pageLimit + 1)
        hasNext == Len(fetched) > f.pageLimit
        rows == IF hasNext THEN SubSeq(fetched, 1, f.pageLimit) ELSE fetched
        output == [i \in DOMAIN rows |-> mapDentistCursorRow(rows[i])]
        nextCursor == IF hasNext /\ Len(rows) > 0
                      THEN Some(UUIDText(rows[Len(rows)].details.dentist_id, 7))
                      ELSE Nil
    IN  /\ f.pc = "ListClinicDentistsWithCursor_ListDentistsByClinicIDCursor"
        /\ Return(w, NULL, FALSE, [items |-> output, nextCursor |-> nextCursor])
        /\ walk' = Received(w, [i \in DOMAIN rows |-> rows[i].details.dentist_id], nextCursor)
        /\ UNCHANGED <<db, nextID, clock, ops>>

\* Handler.writeError: the status code of the problem response for an error
\* a use-case returned.
writeError(err) ==
    CASE err = ErrValidation -> 400
      [] err = ErrNotFound -> 404
      [] err = ErrConflict -> 409
      [] err = ErrUnauthorized -> 401
      [] OTHER -> 500

\* ------------------------------------------------- waiting and deadlocks

\* A statement that meets a locked row waits; the rows it selected are those
\* of the snapshot it took when it was issued.
Block(w) ==
    /\ Stmt(w).kind \in {"update", "for update"}
    /\ ~frame[w].wait.valid
    /\ BlockedOn(w) # {}
    /\ frame' = [frame EXCEPT ![w].wait = Some(Stmt(w).keys)]
    /\ UNCHANGED <<db, tx, result, nextID, clock, ops>>
    /\ UNCHANGED walk

RECURSIVE WaitClosure(_, _)
WaitClosure(S, n) ==
    IF n = 0 THEN S ELSE WaitClosure(S \cup UNION {BlockedOn(o) : o \in S}, n - 1)

\* w waits, directly or not, for a transaction that waits for w.
InWaitCycle(w) == w \in WaitClosure(BlockedOn(w), Cardinality(Workers))

\* The deadlock detector fails the statement w waits in with 40P01; every
\* use-case returns that error through mapDatabaseError and rolls back.
DeadlockDetected(w) ==
    /\ InWaitCycle(w)
    /\ Return(w, mapDatabaseError(PgDeadlockDetected), FALSE, NULL)
    /\ UNCHANGED <<db, nextID, clock, ops>>
    /\ UNCHANGED walk

\* ---------------------------------------------------------- specification

\* Two clients calling concurrently.
Next ==
    \E w \in Workers :
        \/ CreateClinic_Begin(w, CreateClinicSample)
        \/ CreateClinic_CreatePerson(w)
        \/ CreateClinic_CreateClinic(w)
        \/ CreateClinic_CreateBankAccount(w)
        \/ CreateClinic_Commit(w)
        \/ loadClinicSummary_GetClinicDetails(w)
        \/ loadClinicSummary_ListDentistsByClinicID(w)
        \/ UpdateClinic_Begin(w, UpdateClinicSample)
        \/ UpdateClinic_GetClinicByID(w)
        \/ UpdateClinic_UpdatePerson(w)
        \/ UpdateClinic_CreateBankAccount(w)
        \/ UpdateClinic_lockClinicForUpdate(w)
        \/ UpdateClinic_DeleteBankAccount(w)
        \/ UpdateClinic_ListBankAccountsByClinicID(w)
        \/ UpdateClinic_Commit(w)
        \/ DeleteClinic_Begin(w)
        \/ DeleteClinic_GetClinicByID(w)
        \/ DeleteClinic_EndClinicDentistsByClinic(w)
        \/ DeleteClinic_DeleteClinic(w)
        \/ DeleteClinic_DeletePerson(w)
        \/ DeleteClinic_Commit(w)
        \/ CreateOrAttachDentist_Begin(w, CreateDentistSample)
        \/ CreateOrAttachDentist_GetClinicByID(w)
        \/ CreateOrAttachDentist_GetPersonByTaxID(w)
        \/ CreateOrAttachDentist_CreatePerson(w)
        \/ CreateOrAttachDentist_Reread(w)
        \/ CreateOrAttachDentist_UpdatePerson(w)
        \/ CreateOrAttachDentist_GetDentistByPersonID(w)
        \/ CreateOrAttachDentist_CreateDentist(w)
        \/ CreateOrAttachDentist_GetActiveClinicDentist(w)
        \/ CreateOrAttachDentist_CreateClinicDentist(w)
        \/ CreateOrAttachDentist_UpdateClinicDentistRole(w)
        \/ CreateOrAttachDentist_Commit(w)
        \/ UpdateClinicDentistRole_Begin(w, UpdateClinicDentistRoleSample)
        \/ UpdateClinicDentistRole_UpdateClinicDentistRole(w)
        \/ UpdateClinicDentistRole_GetDentistDetailsByID(w)
        \/ UnlinkDentistFromClinic_Begin(w)
        \/ UnlinkDentistFromClinic_GetActiveClinicDentist(w)
        \/ UnlinkDentistFromClinic_CountActiveClinicLinksByDentist(w)
        \/ UnlinkDentistFromClinic_EndClinicDentist(w)
        \/ UpdateDentist_Begin(w, UpdateDentistSample)
        \/ UpdateDentist_GetDentistByID(w)
        \/ UpdateDentist_UpdatePerson(w)
        \/ DeleteDentist_Begin(w)
        \/ DeleteDentist_GetDentistByID(w)
        \/ DeleteDentist_EndClinicDentistsByDentist(w)
        \/ DeleteDentist_DeleteDentist(w)
        \/ DeleteDentist_DeletePerson(w)
        \/ DeleteDentist_Commit(w)
        \/ Block(w)
        \/ DeadlockDetected(w)

Spec == Init /\ [][Next]_vars

\* One client calling, one call after the other, with every request.
NextSeq ==
    \/ CreateClinic_Begin(1, CreateClinicInputs)
    \/ CreateClinic_CreatePerson(1)
    \/ CreateClinic_CreateClinic(1)
    \/ CreateClinic_CreateBankAccount(1)
    \/ CreateClinic_Commit(1)
    \/ loadClinicSummary_GetClinicDetails(1)
    \/ loadClinicSummary_ListDentistsByClinicID(1)
    \/ UpdateClinic_Begin(1, UpdateClinicInputs)
    \/ UpdateClinic_GetClinicByID(1)
    \/ UpdateClinic_UpdatePerson(1)
    \/ UpdateClinic_CreateBankAccount(1)
    \/ UpdateClinic_lockClinicForUpdate(1)
    \/ UpdateClinic_DeleteBankAccount(1)
    \/ UpdateClinic_ListBankAccountsByClinicID(1)
    \/ UpdateClinic_Commit(1)
    \/ DeleteClinic_Begin(1)
    \/ DeleteClinic_GetClinicByID(1)
    \/ DeleteClinic_EndClinicDentistsByClinic(1)
    \/ DeleteClinic_DeleteClinic(1)
    \/ DeleteClinic_DeletePerson(1)
    \/ DeleteClinic_Commit(1)
    \/ CreateOrAttachDentist_Begin(1, CreateDentistBodies)
    \/ CreateOrAttachDentist_GetClinicByID(1)
    \/ CreateOrAttachDentist_GetPersonByTaxID(1)
    \/ CreateOrAttachDentist_CreatePerson(1)
    \/ CreateOrAttachDentist_UpdatePerson(1)
    \/ CreateOrAttachDentist_GetDentistByPersonID(1)
    \/ CreateOrAttachDentist_CreateDentist(1)
    \/ CreateOrAttachDentist_GetActiveClinicDentist(1)
    \/ CreateOrAttachDentist_CreateClinicDentist(1)
    \/ CreateOrAttachDentist_UpdateClinicDentistRole(1)
    \/ CreateOrAttachDentist_Commit(1)
    \/ UpdateClinicDentistRole_Begin(1, UpdateClinicDentistRoleInputs)
    \/ UpdateClinicDentistRole_UpdateClinicDentistRole(1)
    \/ UpdateClinicDentistRole_GetDentistDetailsByID(1)
    \/ UnlinkDentistFromClinic_Begin(1)
    \/ UnlinkDentistFromClinic_GetActiveClinicDentist(1)
    \/ UnlinkDentistFromClinic_CountActiveClinicLinksByDentist(1)
    \/ UnlinkDentistFromClinic_EndClinicDentist(1)
    \/ UpdateDentist_Begin(1, UpdateDentistInputs)
    \/ UpdateDentist_GetDentistByID(1)
    \/ UpdateDentist_UpdatePerson(1)
    \/ DeleteDentist_Begin(1)
    \/ DeleteDentist_GetDentistByID(1)
    \/ DeleteDentist_EndClinicDentistsByDentist(1)
    \/ DeleteDentist_DeleteDentist(1)
    \/ DeleteDentist_DeletePerson(1)
    \/ DeleteDentist_Commit(1)

SpecSeq == Init /\ [][NextSeq]_vars

\* One client, starting from the store with the eleven-digit company tax id.
SpecCompanyWithCPF == InitCompanyWithCPF /\ [][NextSeq]_vars

\* ------------------------------------------------------------ list calls

\* The store after these calls, in this order: a CreateClinic that has taken
\* the identifiers 1 and 2 and begun its transaction (not in the store yet),
\* CreateClinic (4), CreateOrAttachDentist of Ana at 4, CreateClinic (9),
\* CreateOrAttachDentist of Bia at 9.
SeedPages ==
    [db |-> [EmptyDB EXCEPT
        !.people = (3 :> SeedPerson("COMPANY", "CNPJ", SelectSeq(Chars_CNPJ_A, IsAlnum), "Acme Dental"))
                   @@ (6 :> SeedPerson("INDIVIDUAL", "CPF", SelectSeq(Chars_CPF_A, IsDigit), "Ana"))
                   @@ (8 :> SeedPerson("COMPANY", "CNPJ", SelectSeq(Chars_CNPJ_B, IsAlnum), "Acme Dental"))
                   @@ (11 :> SeedPerson("INDIVIDUAL", "CPF", SelectSeq(Chars_CPF_B, IsDigit), "Bia")),
        !.clinics = (4 :> [person_id |-> 3, deleted_at |-> Nil])
                    @@ (9 :> [person_id |-> 8, deleted_at |-> Nil]),
        !.bank_accounts = (5 :> SeedAccount(4, Acc1)) @@ (10 :> SeedAccount(9, Acc1)),
        !.dentists = (7 :> [person_id |-> 6, deleted_at |-> Nil])
                     @@ (12 :> [person_id |-> 11, deleted_at |-> Nil]),
        !.clinic_dentists =
            (<<4, 7, 4>> :>
                [clinic_id |-> 4, dentist_id |-> 7, is_admin |-> TRUE,
                 is_legal_representative |-> FALSE, started_at |-> 4, ended_at |-> Nil])
            @@ (<<9, 12, 7>> :>
                [clinic_id |-> 9, dentist_id |-> 12, is_admin |-> FALSE,
                 is_legal_representative |-> FALSE, started_at |-> 7, ended_at |-> Nil])],
     nextID |-> 13, clock |-> 8]

\* The request of the CreateClinic in flight.
CreateClinicInFlight == [CreateClinicBase EXCEPT !.tax_id_number = Chars_CNPJ_C]

\* SeedPages with worker 2 inside that CreateClinic, before its first INSERT.
InitWalk ==
    /\ db = SeedPages.db
    /\ nextID = SeedPages.nextID
    /\ clock = SeedPages.clock
    /\ tx = [w \in Workers |->
                IF w = 2 THEN [NoTx EXCEPT !.status = "open", !.now = 1] ELSE NoTx]
    /\ frame = [w \in Workers |->
                IF w = 2
                THEN [IdleFrame EXCEPT !.pc = "CreateClinic_CreatePerson",
                                       !.op = "CreateClinic",
                                       !.input = CreateClinicInFlight,
                                       !.taxID = NormalizeCNPJ(Chars_CNPJ_C),
                                       !.personID = 1,
                                       !.clinicID = 2]
                ELSE IdleFrame]
    /\ result = [w \in Workers |-> NoResult]
    /\ ops = 0
    /\ walk = NoWalk

\* SeedPages once that CreateClinic has committed: three clinics.
SeedThreeClinics ==
    [db |-> [SeedPages.db EXCEPT
        !.people = @ @@ (1 :> SeedPerson("COMPANY", "CNPJ", SelectSeq(Chars_CNPJ_C, IsAlnum),
                                         "Acme Dental")),
        !.clinics = @ @@ (2 :> [person_id |-> 1, deleted_at |-> Nil]),
        !.bank_accounts = @ @@ (13 :> SeedAccount(2, Acc1))],
     nextID |-> 14, clock |-> 8]

\* SeedThreeClinics after DeleteClinic of 4.
SeedDeletedClinic ==
    [db |-> [SeedThreeClinics.db EXCEPT
        !.people[3].deleted_at = Some(8),
        !.clinics[4].deleted_at = Some(8),
        !.clinic_dentists[<<4, 7, 4>>].ended_at = Some(8)],
     nextID |-> 14, clock |-> 9]

InitRead ==
    /\ \E seed \in {SeedEmpty, SeedTwoClinics, SeedThreeClinics, SeedDeletedClinic} :
        /\ db = seed.db
        /\ nextID = seed.nextID
        /\ clock = seed.clock
    /\ tx = [w \in Workers |-> NoTx]
    /\ frame = [w \in Workers |-> IdleFrame]
    /\ result = [w \in Workers |-> NoResult]
    /\ ops = 0
    /\ walk = NoWalk

\* One client reading, nobody writing: callers of the service and HTTP
\* clients, with every limit and cursor.
NextRead ==
    \/ ListClinicsWithCursor_Begin(1, Limits, Cursors(KnownIDs("clinics")))
    \/ listClinics(1, RawLimits, RawCursors(KnownIDs("clinics")))
    \/ ListClinicsWithCursor_ListClinicDetailsCursor(1)
    \/ ListClinicsWithCursor_loadClinicDentistIDsByClinicIDs(1)
    \/ ListClinicDentistsWithCursor_Begin(1, Limits, Cursors(KnownIDs("dentists")))
    \/ listClinicDentists(1, RawLimits, RawCursors(KnownIDs("dentists")))
    \/ ListClinicDentistsWithCursor_GetClinicByID(1)
    \/ ListClinicDentistsWithCursor_ListDentistsByClinicIDCursor(1)

SpecRead == InitRead /\ [][NextRead]_vars

\* The bodies the writer attaches dentists with: Ana, who exists, and Caio,
\* who does not.
WalkDentistBodies ==
    {CreateDentistBody(Chars_CPF_A, "Ana", NULL, Nil, Nil),
     CreateDentistBody(Chars_CPF_C, "Caio", NULL, Nil, Nil)}

\* Client 1 walks the pages while client 2 writes.
NextWalk ==
    \/ ListClinicsWithCursor_Begin(1, WalkLimits, WalkCursors)
    \/ ListClinicsWithCursor_ListClinicDetailsCursor(1)
    \/ ListClinicsWithCursor_loadClinicDentistIDsByClinicIDs(1)
    \/ ListClinicDentistsWithCursor_Begin(1, WalkLimits, WalkCursors)
    \/ ListClinicDentistsWithCursor_GetClinicByID(1)
    \/ ListClinicDentistsWithCursor_ListDentistsByClinicIDCursor(1)
    \/ CreateClinic_Begin(2, {CreateClinicBase})
    \/ CreateClinic_CreatePerson(2)
    \/ CreateClinic_CreateClinic(2)
    \/ CreateClinic_CreateBankAccount(2)
    \/ CreateClinic_Commit(2)
    \/ loadClinicSummary_GetClinicDetails(2)
    \/ loadClinicSummary_ListDentistsByClinicID(2)
    \/ DeleteClinic_Begin(2)
    \/ DeleteClinic_GetClinicByID(2)
    \/ DeleteClinic_EndClinicDentistsByClinic(2)
    \/ DeleteClinic_DeleteClinic(2)
    \/ DeleteClinic_DeletePerson(2)
    \/ DeleteClinic_Commit(2)
    \/ CreateOrAttachDentist_Begin(2, WalkDentistBodies)
    \/ CreateOrAttachDentist_GetClinicByID(2)
    \/ CreateOrAttachDentist_GetPersonByTaxID(2)
    \/ CreateOrAttachDentist_CreatePerson(2)
    \/ CreateOrAttachDentist_UpdatePerson(2)
    \/ CreateOrAttachDentist_GetDentistByPersonID(2)
    \/ CreateOrAttachDentist_CreateDentist(2)
    \/ CreateOrAttachDentist_GetActiveClinicDentist(2)
    \/ CreateOrAttachDentist_CreateClinicDentist(2)
    \/ CreateOrAttachDentist_UpdateClinicDentistRole(2)
    \/ CreateOrAttachDentist_Commit(2)

SpecWalk == InitWalk /\ [][NextWalk]_vars

\* ------------------------------------------------ tax ids, on their own

\* Times one value is passed through NormalizeCNPJ.
MaxNormalize == 2

\* An alphanumeric CNPJ, and the same with a wrong check digit.
Chars_CNPJ_D == <<"1", "2", "A", "B", "C", "3", "4", "5", "0", "1", "D", "E", "3", "5">>
Chars_CNPJ_D_bad == <<"1", "2", "A", "B", "C", "3", "4", "5", "0", "1", "D", "E", "3", "6">>

ToLowerChar(c) == IF c \in Range(Letters) THEN LowerLetters[IndexOf(Letters, c)] ELSE c

\* The ways a client writes a tax id: with the usual punctuation, in lower
\* case, with blanks around it.
Punctuated(s) ==
    IF Len(s) # 14 THEN s
    ELSE SubSeq(s, 1, 2) \o <<".">> \o SubSeq(s, 3, 5) \o <<".">> \o SubSeq(s, 6, 8)
            \o <<"/">> \o SubSeq(s, 9, 12) \o <<"-">> \o SubSeq(s, 13, 14)
LowerCased(s) == [i \in DOMAIN s |-> ToLowerChar(s[i])]
Padded(s, l, r) == [i \in 1..l |-> " "] \o s \o [i \in 1..r |-> " "]

TaxIDBases ==
    {SelectSeq(Chars_CNPJ_A, IsAlnum), Chars_CNPJ_B, Chars_CNPJ_C, Chars_CNPJ_D,
     Chars_CNPJ_D_bad, Chars_short}

RawTaxIDs ==
    {Padded(t, l, r) :
        t \in UNION {{b, Punctuated(b), LowerCased(b), LowerCased(Punctuated(b))} :
                        b \in TaxIDBases},
        l \in 0..1, r \in 0..1}

\* A caller takes a tax id as the client wrote it,
NormalizeThenValidate_Begin(w, raws) ==
    /\ Idle(w)
    /\ \E raw \in raws :
        frame' = [frame EXCEPT ![w] =
            [IdleFrame EXCEPT !.pc = "NormalizeThenValidate_NormalizeCNPJ",
                              !.op = "NormalizeThenValidate",
                              !.input = raw,
                              !.taxID = raw]]
    /\ ops' = ops + 1
    /\ UNCHANGED <<db, tx, result, nextID, clock, walk>>

\* passes it through validation.NormalizeCNPJ (once, or again on the result),
NormalizeThenValidate_NormalizeCNPJ(w) ==
    /\ frame[w].pc = "NormalizeThenValidate_NormalizeCNPJ"
    /\ frame[w].i <= MaxNormalize
    /\ frame' = [frame EXCEPT ![w].taxID = NormalizeCNPJ(frame[w].taxID),
                              ![w].i = frame[w].i + 1]
    /\ UNCHANGED <<db, tx, result, nextID, clock, ops, walk>>

\* and asks validation.ValidateCNPJ about the result, as CreateClinic does.
NormalizeThenValidate_ValidateCNPJ(w) ==
    /\ frame[w].pc = "NormalizeThenValidate_NormalizeCNPJ"
    /\ frame[w].i > 1
    /\ ReturnOf(w, frame[w].op, NULL, frame[w].input,
                IF ValidateCNPJ(frame[w].taxID) THEN NULL ELSE ErrValidation,
                FALSE, frame[w].taxID)
    /\ UNCHANGED <<db, nextID, clock, ops, walk>>

NextTaxID ==
    \/ NormalizeThenValidate_Begin(1, RawTaxIDs)
    \/ NormalizeThenValidate_NormalizeCNPJ(1)
    \/ NormalizeThenValidate_ValidateCNPJ(1)

InitTaxID ==
    /\ db = EmptyDB
    /\ nextID = 1
    /\ clock = 1
    /\ tx = [w \in Workers |-> NoTx]
    /\ frame = [w \in Workers |-> IdleFrame]
    /\ result = [w \in Workers |-> NoResult]
    /\ ops = 0
    /\ walk = NoWalk

SpecTaxID == InitTaxID /\ [][NextTaxID]_vars

\* --------------------------------------------------------------- GetClinic

GetClinic_Begin(w) ==
    /\ Idle(w)
    /\ \E clinicID \in KnownIDs("clinics") :
        frame' = [frame EXCEPT ![w] =
            [IdleFrame EXCEPT !.pc = "loadClinicDetails_GetClinicDetails", !.op = "GetClinic",
                              !.clinicID = clinicID]]
    /\ ops' = ops + 1
    /\ UNCHANGED <<db, tx, result, nextID, clock>>
    /\ UNCHANGED walk

\* s.queries.GetClinicDetails
loadClinicDetails_GetClinicDetails(w) ==
    LET f == frame[w]
        row == GetClinicDetails(db, f.clinicID)
    IN  /\ f.pc = "loadClinicDetails_GetClinicDetails"
        /\ IF ~row.valid
           THEN Return(w, ErrNotFound, FALSE, NULL)
           ELSE /\ frame' = [frame EXCEPT ![w].pc = "loadClinicDetails_ListDentistsByClinicID",
                                          ![w].clinic = row]
                /\ UNCHANGED <<tx, result>>
        /\ UNCHANGED <<db, nextID, clock, ops>>
        /\ UNCHANGED walk

\* s.queries.ListDentistsByClinicID
loadClinicDetails_ListDentistsByClinicID(w) ==
    LET f == frame[w]
    IN  /\ f.pc = "loadClinicDetails_ListDentistsByClinicID"
        /\ frame' = [frame EXCEPT ![w].pc = "loadClinicDetails_ListBankAccountsByClinicID",
                                  ![w].rows = ListDentistsByClinicID(db, f.clinicID)]
        /\ UNCHANGED <<db, tx, result, nextID, clock, ops>>
        /\ UNCHANGED walk

\* mapBankAccounts; the rows come ORDER BY created_at DESC, which does not
\* order the accounts one transaction wrote, so the output is kept as a set.
mapBankAccounts(rows, ids) ==
    {[id |-> k, bank_code |-> rows[k].bank_code, branch_number |-> rows[k].branch_number,
      account_number |-> rows[k].account_number] : k \in ids}

\* mapClinicDetails: the ClinicDetailsOutput
mapClinicDetails(row, dentistIDs, bankAccounts) ==
    [id |-> row.clinic_id, person_id |-> row.person_id, legal_name |-> row.legal_name,
     trade_name |-> row.trade_name, tax_id_number |-> row.tax_id_number,
     email |-> row.email, phone |-> row.phone, dentist_ids |-> dentistIDs,
     bank_accounts |-> bankAccounts]

\* s.queries.ListBankAccountsByClinicID and the return
loadClinicDetails_ListBankAccountsByClinicID(w) ==
    LET f == frame[w]
        accounts == mapBankAccounts(db.bank_accounts,
                                    ActiveBankAccounts(db.bank_accounts, f.clinicID))
    IN  /\ f.pc = "loadClinicDetails_ListBankAccountsByClinicID"
        /\ Return(w, NULL, FALSE, mapClinicDetails(f.clinic, f.rows, accounts))
        /\ UNCHANGED <<db, nextID, clock, ops>>
        /\ UNCHANGED walk

\* ------------------------------------------------------------- access tokens

\* WithAuthConfig: the signing key, the issuer and the lifetime of a token,
\* in ticks of the clock.
jwtSigningKey == "secret"
jwtIssuer == "capim-test-api"
jwtAccessTokenTTL == 3

\* The user EnsureUser stored at start, with the password its hash is of.
BootstrapUser == [id |-> 50, email |-> "a@acme.io", password |-> "password-a"]

\* bcrypt: a hash is written by the password it is of; every call salts
\* anew, and CompareHashAndPassword accepts exactly that password.
bcrypt_GenerateFromPassword(password) == [bcrypt |-> password]
bcrypt_CompareHashAndPassword(hash, password) == hash.bcrypt = password

\* A row of users.
UserRow(email, password) ==
    [email |-> email, password_hash |-> bcrypt_GenerateFromPassword(password),
     deleted_at |-> Nil]

\* The store after EnsureUser of the bootstrap user.
WithBootstrapUser(d) ==
    [d EXCEPT !.users = BootstrapUser.id :> UserRow(BootstrapUser.email, BootstrapUser.password)]

\* GetUserByEmail: lower(email) = lower($1) AND deleted_at IS NULL
GetUserByEmail(rows, email) ==
    {k \in DOMAIN rows : ToLower(rows[k].email) = ToLower(email) /\ rows[k].deleted_at = Nil}

\* A header value is a sequence of pieces: blanks, words, and signed tokens. A
\* signed token is written by what it decodes to: the signing method, the
\* key it was signed with and its claims.
Word(text) == [text |-> text, jwt |-> Nil]
Blank == Word(" ")
SignedString(alg, key, iss, sub, nbf, exp) ==
    [text |-> "jwt",
     jwt |-> Some([alg |-> alg, key |-> key, iss |-> iss, sub |-> sub, nbf |-> nbf,
                   exp |-> exp])]

RECURSIVE TrimBlanksLeft(_)
TrimBlanksLeft(s) == IF s # <<>> /\ Head(s) = Blank THEN TrimBlanksLeft(Tail(s)) ELSE s
RECURSIVE TrimBlanksRight(_)
TrimBlanksRight(s) ==
    IF s # <<>> /\ s[Len(s)] = Blank THEN TrimBlanksRight(SubSeq(s, 1, Len(s) - 1)) ELSE s
\* strings.TrimSpace on a header value.
TrimBlanks(s) == TrimBlanksRight(TrimBlanksLeft(s))

\* strings.HasPrefix and strings.TrimPrefix
HasPrefix(s, prefix) == Len(s) >= Len(prefix) /\ SubSeq(s, 1, Len(prefix)) = prefix
TrimPrefix(s, prefix) == IF HasPrefix(s, prefix) THEN SubSeq(s, Len(prefix) + 1, Len(s)) ELSE s

\* The token Login signs at time now for the user with an id; the subject
\* is the text of the id.
Login_SignedString(id, now) ==
    SignedString("HS256", jwtSigningKey, jwtIssuer, UUIDText(id, 7), now,
                 now + jwtAccessTokenTTL)

\* The checks of Login before its query: the error and its message, if one
\* of them fails.
LoginValidation(input) ==
    IF ~ValidateEmail(ToLower(TrimSpace(input.email)))
    THEN [failed |-> TRUE, err |-> ErrValidation, detail |-> "invalid email"]
    ELSE IF TrimSpace(input.password) = ""
    THEN [failed |-> TRUE, err |-> ErrValidation, detail |-> "password is required"]
    ELSE IF jwtSigningKey = ""
    THEN [failed |-> TRUE, err |-> "jwt signing key is not configured", detail |-> NULL]
    ELSE [failed |-> FALSE, err |-> NULL, detail |-> NULL]

\* A variant that tells a caller that the email has no user.
Login_UserNotFound(users, input, now) ==
    LET found == GetUserByEmail(users, ToLower(TrimSpace(input.email)))
    IN  IF LoginValidation(input).failed
        THEN [err |-> LoginValidation(input).err, detail |-> LoginValidation(input).detail,
              out |-> NULL]
        ELSE IF found = {}
        THEN [err |-> ErrNotFound, detail |-> "user not found", out |-> NULL]
        ELSE LET id == CHOOSE k \in found : TRUE
             IN  IF ~bcrypt_CompareHashAndPassword(users[id].password_hash, input.password)
                 THEN [err |-> ErrUnauthorized, detail |-> "invalid credentials", out |-> NULL]
                 ELSE [err |-> NULL, detail |-> NULL,
                       out |-> [access_token |-> Login_SignedString(id, now),
                                token_type |-> "Bearer", expires_in |-> jwtAccessTokenTTL,
                                user_id |-> id, email |-> users[id].email]]

\* Service.Login: the checks, the user by email, the password, the token.
Login(users, input, now) ==
    LET found == GetUserByEmail(users, ToLower(TrimSpace(input.email)))
    IN  IF LoginValidation(input).failed
        THEN [err |-> LoginValidation(input).err, detail |-> LoginValidation(input).detail,
              out |-> NULL]
        ELSE IF found = {}
        THEN [err |-> ErrUnauthorized, detail |-> "invalid credentials", out |-> NULL]
        ELSE LET id == CHOOSE k \in found : TRUE
             IN  IF ~bcrypt_CompareHashAndPassword(users[id].password_hash, input.password)
                 THEN [err |-> ErrUnauthorized, detail |-> "invalid credentials", out |-> NULL]
                 ELSE [err |-> NULL, detail |-> NULL,
                       out |-> [access_token |-> Login_SignedString(id, now),
                                token_type |-> "Bearer", expires_in |-> jwtAccessTokenTTL,
                                user_id |-> id, email |-> users[id].email]]

\* A variant that does not look at the expiry of the token.
ValidateAccessToken_NoExpiry(token, now) ==
    IF TrimBlanks(token) = <<>> THEN ErrUnauthorized
    ELSE IF jwtSigningKey = "" THEN "jwt signing key is not configured"
    ELSE IF Len(token) # 1 \/ ~token[1].jwt.valid THEN ErrUnauthorized
    ELSE LET claims == token[1].jwt.value
         IN  IF claims.alg \notin {"HS256", "HS384", "HS512"} THEN ErrUnauthorized
             ELSE IF claims.key # jwtSigningKey THEN ErrUnauthorized
             ELSE IF claims.iss # jwtIssuer THEN ErrUnauthorized
             ELSE IF now < claims.nbf THEN ErrUnauthorized
             ELSE IF TrimSpace(claims.sub.text) = "" THEN ErrUnauthorized
             ELSE NULL

\* Service.ValidateAccessToken: jwt.ParseWithClaims with an HMAC method, the
\* signing key and the issuer; the library refuses what is not a token, a
\* wrong signature, a token used before nbf or at or after exp; then the
\* subject must not be blank.
ValidateAccessToken(token, now) ==
    IF TrimBlanks(token) = <<>> THEN ErrUnauthorized
    ELSE IF jwtSigningKey = "" THEN "jwt signing key is not configured"
    ELSE IF Len(token) # 1 \/ ~token[1].jwt.valid THEN ErrUnauthorized
    ELSE LET claims == token[1].jwt.value
         IN  IF claims.alg \notin {"HS256", "HS384", "HS512"} THEN ErrUnauthorized
             ELSE IF claims.key # jwtSigningKey THEN ErrUnauthorized
             ELSE IF claims.iss # jwtIssuer THEN ErrUnauthorized
             ELSE IF now < claims.nbf \/ now >= claims.exp THEN ErrUnauthorized
             ELSE IF TrimSpace(claims.sub.text) = "" THEN ErrUnauthorized
             ELSE NULL

\* ------------------------------------------------ the router and requireAuth

\* NewRouter: the routes of /api/v1, the handler of each, and whether it is
\* registered on the group that uses requireAuth.
Route(method, path, handler, protected) ==
    [method |-> method, path |-> path, handler |-> handler, protected |-> protected]
Routes ==
    {Route("GET", "/api/v1/health", "health", FALSE),
     Route("POST", "/api/v1/auth/login", "login", FALSE),
     Route("GET", "/api/v1/clinics", "listClinics", TRUE),
     Route("POST", "/api/v1/clinics", "createClinic", TRUE),
     Route("GET", "/api/v1/clinics/:id", "getClinic", TRUE),
     Route("PATCH", "/api/v1/clinics/:id", "updateClinic", TRUE),
     Route("DELETE", "/api/v1/clinics/:id", "deleteClinic", TRUE),
     Route("POST", "/api/v1/clinics/:id/dentists", "createDentist", TRUE),
     Route("GET", "/api/v1/clinics/:id/dentists", "listClinicDentists", TRUE),
     Route("PATCH", "/api/v1/clinics/:id/dentists/:dentist_id", "updateClinicDentistRole", TRUE),
     Route("DELETE", "/api/v1/clinics/:id/dentists/:dentist_id", "unlinkDentistFromClinic", TRUE),
     Route("PATCH", "/api/v1/dentists/:id", "updateDentist", TRUE),
     Route("DELETE", "/api/v1/dentists/:id", "deleteDentist", TRUE)}

\* The route gin matches a request to, if any.
Matches(request) == {r \in Routes : r.method = request.method /\ r.path = request.path}

\* The tokens a client may hold at time now: the one Login signs now, one
\* whose lifetime has just ended, and forged ones: signed with another key,
\* by another issuer, unsigned, without a subject, not valid yet.
Bearer(pieces) == <<Word("Bearer"), Blank>> \o pieces
TokenAt(now) == Login_SignedString(BootstrapUser.id, now)
ExpiredAt(now) == TokenAt(now - jwtAccessTokenTTL)
ForgedTokens(now) ==
    {SignedString("HS256", "other", jwtIssuer, UUIDText(BootstrapUser.id, 7), now, now + 1),
     SignedString("HS256", jwtSigningKey, "other", UUIDText(BootstrapUser.id, 7), now, now + 1),
     SignedString("none", jwtSigningKey, jwtIssuer, UUIDText(BootstrapUser.id, 7), now, now + 1),
     SignedString("HS256", jwtSigningKey, jwtIssuer, Text("  "), now, now + 1),
     SignedString("HS256", jwtSigningKey, jwtIssuer, UUIDText(BootstrapUser.id, 7), now + 1,
                  now + 2)}

\* Authorization headers every route is asked with: none, an expired token,
\* a good token.
Authorizations(now) == {<<>>, Bearer(<<ExpiredAt(now)>>), Bearer(<<TokenAt(now)>>)}

\* More headers: blank, another scheme, the scheme without a token, the
\* scheme in lower case, no blank after the scheme, something that is not a
\* token, two tokens, forged tokens, and a good token with blanks around.
MoreAuthorizations(now) ==
    {<<Blank>>, <<Word("Basic"), Blank, Word("abc")>>, <<Word("Bearer")>>,
     <<Word("Bearer"), Blank>>,
     <<Word("bearer"), Blank, TokenAt(now)>>, <<Word("Bearer"), TokenAt(now)>>,
     Bearer(<<Word("abc")>>), Bearer(<<TokenAt(now), Blank, TokenAt(now)>>),
     <<Blank>> \o Bearer(<<Blank, TokenAt(now), Blank>>)}
    \cup {Bearer(<<t>>) : t \in ForgedTokens(now)}

LoginBodies ==
    {[email |-> "a@acme.io", password |-> "password-a"],
     [email |-> "a@acme.io", password |-> "password-b"],
     [email |-> "acme", password |-> "password-a"]}

\* The requests of a client: every protected route with the three headers,
\* GET /clinics/:id with the others too, the public routes, and a path that
\* is not routed.
Request(method, path, authorization, body) ==
    [method |-> method, path |-> path, authorization |-> authorization, body |-> body]
Requests(now) ==
    {Request(r.method, r.path, a, Nil) :
        r \in {r \in Routes : r.protected}, a \in Authorizations(now)}
    \cup {Request("GET", "/api/v1/clinics/:id", a, Nil) : a \in MoreAuthorizations(now)}
    \cup {Request("GET", "/api/v1/health", <<>>, Nil)}
    \cup {Request("POST", "/api/v1/auth/login", <<>>, Some(b)) : b \in LoginBodies}
    \cup {Request("GET", "/api/v1/users", Bearer(<<TokenAt(now)>>), Nil)}

\* writeProblem: the problem document and AbortWithStatusJSON.
writeProblem(w, handler, status, detail) ==
    ReturnOf(w, handler, NULL, frame[w].input, IF status = 401 THEN ErrUnauthorized ELSE ErrNotFound,
             FALSE, [status |-> status, detail |-> detail])

\* gin's ServeHTTP: the request enters the handlers of its route, requireAuth
\* first on the protected group; a path without a route is answered 404.
NewRouter(w, requests) ==
    /\ frame[w].pc = "idle"
    /\ ops < MaxOps
    /\ ops < MaxRequests
    /\ walk.calls < MaxPages
    /\ \E request \in requests :
        IF Matches(request) = {}
        THEN ReturnOf(w, "NoRoute", NULL, request, ErrNotFound, FALSE,
                      [status |-> 404, detail |-> "404 page not found"])
        ELSE LET route == CHOOSE r \in Matches(request) : TRUE
             IN  /\ frame' = [frame EXCEPT ![w] =
                        [IdleFrame EXCEPT !.pc = IF route.protected THEN "requireAuth"
                                                 ELSE route.handler,
                                          !.op = route.handler,
                                          !.input = request]]
                 /\ UNCHANGED <<tx, result>>
    /\ UNCHANGED <<db, nextID, clock, ops>>
    /\ UNCHANGED walk

\* Handler.health
health(w) ==
    /\ frame[w].pc = "health"
    /\ ReturnOf(w, "health", NULL, frame[w].input, NULL, FALSE, [status |-> 200])
    /\ UNCHANGED <<db, nextID, clock, ops>>
    /\ UNCHANGED walk

\* Handler.login: Service.Login, then writeError or 200 with the token.
login(w) ==
    LET f == frame[w]
        output == Login(db.users, f.input.body.value, clock)
    IN  /\ f.pc = "login"
        /\ ReturnDetail(w, "login", f.input, output.err, output.detail,
                        IF output.err # NULL THEN [status |-> writeError(output.err)]
                        ELSE [status |-> 200] @@ output.out)
        /\ UNCHANGED <<db, nextID, clock, ops>>
        /\ UNCHANGED walk

\* Handler.requireAuth: 401 and abort for a missing header, a header that
\* does not start with "Bearer ", a token ValidateAccessToken refuses;
\* c.Next() otherwise, into the handler of the route.
requireAuth(w) ==
    LET f == frame[w]
        rawAuthorization == TrimBlanks(f.input.authorization)
        prefix == <<Word("Bearer"), Blank>>
        token == TrimBlanks(TrimPrefix(rawAuthorization, prefix))
    IN  /\ f.pc = "requireAuth"
        /\ IF rawAuthorization = <<>>
           THEN writeProblem(w, "requireAuth", 401, "missing bearer token")
           ELSE IF ~HasPrefix(rawAuthorization, prefix)
           THEN writeProblem(w, "requireAuth", 401, "invalid authorization header")
           ELSE IF ValidateAccessToken(token, clock) # NULL
           THEN writeProblem(w, "requireAuth", 401, "invalid token")
           ELSE /\ frame' = [frame EXCEPT ![w].pc = f.op]
                /\ UNCHANGED <<tx, result>>
        /\ UNCHANGED <<db, nextID, clock, ops>>
        /\ UNCHANGED walk

\* The handlers of the protected group, each calling its use-case with the
\* identifiers and the body of a well-formed request.
protected_listClinics(w) ==
    frame[w].pc = "listClinics" /\ listClinics(w, {<<>>, <<"1">>}, {Text("")})
protected_createClinic(w) ==
    frame[w].pc = "createClinic" /\ CreateClinic_Begin(w, CreateClinicSample)
protected_getClinic(w) ==
    frame[w].pc = "getClinic" /\ GetClinic_Begin(w)
protected_updateClinic(w) ==
    frame[w].pc = "updateClinic" /\ UpdateClinic_Begin(w, UpdateClinicSample)
protected_deleteClinic(w) ==
    frame[w].pc = "deleteClinic" /\ DeleteClinic_Begin(w)
protected_createDentist(w) ==
    frame[w].pc = "createDentist" /\ CreateOrAttachDentist_Begin(w, CreateDentistSample)
protected_listClinicDentists(w) ==
    frame[w].pc = "listClinicDentists" /\ listClinicDentists(w, {<<>>, <<"1">>}, {Text("")})
protected_updateClinicDentistRole(w) ==
    /\ frame[w].pc = "updateClinicDentistRole"
    /\ UpdateClinicDentistRole_Begin(w, UpdateClinicDentistRoleSample)
protected_unlinkDentistFromClinic(w) ==
    frame[w].pc = "unlinkDentistFromClinic" /\ UnlinkDentistFromClinic_Begin(w)
protected_updateDentist(w) ==
    frame[w].pc = "updateDentist" /\ UpdateDentist_Begin(w, UpdateDentistSample)
protected_deleteDentist(w) ==
    frame[w].pc = "deleteDentist" /\ DeleteDentist_Begin(w)

\* One client of the HTTP API, on the stores the service is started on.
NextHTTP ==
    \/ NewRouter(1, Requests(clock))
    \/ health(1)
    \/ login(1)
    \/ requireAuth(1)
    \/ protected_listClinics(1)
    \/ protected_createClinic(1)
    \/ protected_getClinic(1)
    \/ protected_updateClinic(1)
    \/ protected_deleteClinic(1)
    \/ protected_createDentist(1)
    \/ protected_listClinicDentists(1)
    \/ protected_updateClinicDentistRole(1)
    \/ protected_unlinkDentistFromClinic(1)
    \/ protected_updateDentist(1)
    \/ protected_deleteDentist(1)
    \/ loadClinicDetails_GetClinicDetails(1)
    \/ loadClinicDetails_ListDentistsByClinicID(1)
    \/ loadClinicDetails_ListBankAccountsByClinicID(1)
    \/ ListClinicsWithCursor_ListClinicDetailsCursor(1)
    \/ ListClinicsWithCursor_loadClinicDentistIDsByClinicIDs(1)
    \/ ListClinicDentistsWithCursor_GetClinicByID(1)
    \/ ListClinicDentistsWithCursor_ListDentistsByClinicIDCursor(1)
    \/ CreateClinic_CreatePerson(1)
    \/ CreateClinic_CreateClinic(1)
    \/ CreateClinic_CreateBankAccount(1)
    \/ CreateClinic_Commit(1)
    \/ loadClinicSummary_GetClinicDetails(1)
    \/ loadClinicSummary_ListDentistsByClinicID(1)
    \/ UpdateClinic_GetClinicByID(1)
    \/ UpdateClinic_UpdatePerson(1)
    \/ UpdateClinic_CreateBankAccount(1)
    \/ UpdateClinic_lockClinicForUpdate(1)
    \/ UpdateClinic_DeleteBankAccount(1)
    \/ UpdateClinic_ListBankAccountsByClinicID(1)
    \/ UpdateClinic_Commit(1)
    \/ DeleteClinic_GetClinicByID(1)
    \/ DeleteClinic_EndClinicDentistsByClinic(1)
    \/ DeleteClinic_DeleteClinic(1)
    \/ DeleteClinic_DeletePerson(1)
    \/ DeleteClinic_Commit(1)
    \/ CreateOrAttachDentist_GetClinicByID(1)
    \/ CreateOrAttachDentist_GetPersonByTaxID(1)
    \/ CreateOrAttachDentist_CreatePerson(1)
    \/ CreateOrAttachDentist_UpdatePerson(1)
    \/ CreateOrAttachDentist_GetDentistByPersonID(1)
    \/ CreateOrAttachDentist_CreateDentist(1)
    \/ CreateOrAttachDentist_GetActiveClinicDentist(1)
    \/ CreateOrAttachDentist_CreateClinicDentist(1)
    \/ CreateOrAttachDentist_UpdateClinicDentistRole(1)
    \/ CreateOrAttachDentist_Commit(1)
    \/ UpdateClinicDentistRole_UpdateClinicDentistRole(1)
    \/ UpdateClinicDentistRole_GetDentistDetailsByID(1)
    \/ UnlinkDentistFromClinic_GetActiveClinicDentist(1)
    \/ UnlinkDentistFromClinic_CountActiveClinicLinksByDentist(1)
    \/ UnlinkDentistFromClinic_EndClinicDentist(1)
    \/ UpdateDentist_GetDentistByID(1)
    \/ UpdateDentist_UpdatePerson(1)
    \/ DeleteDentist_GetDentistByID(1)
    \/ DeleteDentist_EndClinicDentistsByDentist(1)
    \/ DeleteDentist_DeleteDentist(1)
    \/ DeleteDentist_DeletePerson(1)
    \/ DeleteDentist_Commit(1)

\* The empty store, and the store of two clinics with one dentist attached
\* to both.
InitHTTP ==
    /\ \E seed \in {SeedEmpty, SeedTwoClinics} :
        /\ db = WithBootstrapUser(seed.db)
        /\ nextID = seed.nextID
        /\ clock = seed.clock
    /\ tx = [w \in Workers |-> NoTx]
    /\ frame = [w \in Workers |-> IdleFrame]
    /\ result = [w \in Workers |-> NoResult]
    /\ ops = 0
    /\ walk = NoWalk

SpecHTTP == InitHTTP /\ [][NextHTTP]_vars

\* ------------------------------------------------------------------ claims

\* The clinics that are not deleted, and a clinic's bank accounts that are
\* not deleted, read off the columns.
LiveClinics(d) == {c \in DOMAIN d.clinics : d.clinics[c].deleted_at = Nil}
LiveAccounts(d, c) ==
    {k \in DOMAIN d.bank_accounts :
        d.bank_accounts[k].clinic_id = c /\ d.bank_accounts[k].deleted_at = Nil}
RemovedAccounts(d, c) ==
    {k \in DOMAIN d.bank_accounts :
        d.bank_accounts[k].clinic_id = c /\ d.bank_accounts[k].deleted_at # Nil}

RemoveOnly(input) ==
    /\ ~HasPersonFields(input)
    /\ ~input.bank_accounts.valid
    /\ input.bank_account_ids_to_remove.valid
RemoveList(input) == Range(input.bank_account_ids_to_remove.value)

\* C1: in every committed state, under any interleaving of concurrent calls,
\* every clinic that is not deleted has at least one bank account that is
\* not deleted.
C1_ClinicKeepsBankAccount ==
    \A c \in LiveClinics(db) : LiveAccounts(db, c) # {}

\* Two UpdateClinic calls with removals have returned, one committed and the
\* other was refused by the check on the remaining accounts.
C1_Witness ==
    \E c \in LiveClinics(db) :
        /\ RemovedAccounts(db, c) # {}
        /\ \A w \in Workers :
            /\ result[w].op = "UpdateClinic"
            /\ result[w].clinicID = c
            /\ result[w].input.bank_account_ids_to_remove.valid
        /\ {result[w].err : w \in Workers} = {NULL, ErrValidation}

\* C2: when two remove-only UpdateClinic calls on one clinic have removal
\* lists that together cover all of its active accounts, at most one commits:
\* once one has committed, no step of the other changes the committed bank
\* accounts (it removes nothing), and it returns an error.
C2_Covering(w, o) ==
    /\ frame[w].op = "UpdateClinic"
    /\ frame[w].pc # "loadClinicSummary_GetClinicDetails"
    /\ frame[w].pc # "loadClinicSummary_ListDentistsByClinicID"
    /\ RemoveOnly(frame[w].input)
    /\ result[o].op = "UpdateClinic"
    /\ result[o].err = NULL
    /\ result[o].clinicID = frame[w].clinicID
    /\ RemoveOnly(result[o].input)
    /\ LiveAccounts(db, frame[w].clinicID) \subseteq RemoveList(frame[w].input)

C2_AtMostOneCommits ==
    [][\A w \in Workers, o \in Workers :
        (w # o /\ C2_Covering(w, o) /\ frame'[w] # frame[w]) =>
            /\ db'.bank_accounts = db.bank_accounts
            /\ frame'[w].pc = "idle" => result'[w].err \in {ErrValidation, ErrNotFound}]_vars

\* Two remove-only calls on one clinic whose lists cover its active accounts
\* run at once: one has made its removals and is about to commit, the other
\* waits for the lock on the clinic row.
C2_Witness ==
    \E w \in Workers, o \in Workers :
        /\ w # o
        /\ frame[w].op = "UpdateClinic" /\ frame[o].op = "UpdateClinic"
        /\ frame[w].clinicID = frame[o].clinicID
        /\ RemoveOnly(frame[w].input) /\ RemoveOnly(frame[o].input)
        /\ LiveAccounts(db, frame[w].clinicID)
                \subseteq RemoveList(frame[w].input) \cup RemoveList(frame[o].input)
        /\ frame[o].pc = "UpdateClinic_Commit"
        /\ frame[w].pc = "UpdateClinic_lockClinicForUpdate"
        /\ frame[w].wait.valid

\* The rows that are not deleted or ended, read off the columns.
LivePeople(d, taxID) ==
    {k \in DOMAIN d.people :
        d.people[k].tax_id_number = taxID /\ d.people[k].deleted_at = Nil}
LiveDentists(d, personID) ==
    {k \in DOMAIN d.dentists :
        d.dentists[k].person_id = personID /\ d.dentists[k].deleted_at = Nil}
ActiveAffiliations(d, clinicID, dentistID) ==
    {k \in DOMAIN d.clinic_dentists :
        /\ d.clinic_dentists[k].clinic_id = clinicID
        /\ d.clinic_dentists[k].dentist_id = dentistID
        /\ d.clinic_dentists[k].ended_at = Nil}

CreateOrAttachDentist_Commits(w) ==
    /\ frame[w].pc = "CreateOrAttachDentist_Commit"
    /\ frame'[w].pc = "idle"

\* C3: however concurrent CreateOrAttachDentist calls for one clinic and one
\* tax id interleave, each commit leaves exactly one non-deleted Person for
\* the tax id, exactly one non-deleted Dentist for that Person and exactly one
\* active Affiliation for (clinic, dentist); a caller observes created = true
\* only when no active Affiliation was committed before its own, so at most
\* one of the callers does.
C3_ConcurrentAttachConverges ==
    [][\A w \in Workers :
        CreateOrAttachDentist_Commits(w) =>
            /\ LivePeople(db', frame[w].taxID) = {frame[w].personID}
            /\ LiveDentists(db', frame[w].personID) = {frame[w].dentistID}
            /\ Cardinality(ActiveAffiliations(db', frame[w].clinicID, frame[w].dentistID)) = 1
            /\ result'[w].created =>
                ActiveAffiliations(db, frame[w].clinicID, frame[w].dentistID) = {}]_vars

\* Two calls for one clinic and one tax id that no Person had at the start
\* raced: one created the rows, the other lost the race for the Person row.
C3_Witness ==
    \E w \in Workers, o \in Workers :
        /\ w # o
        /\ result[w].op = "CreateOrAttachDentist" /\ result[o].op = "CreateOrAttachDentist"
        /\ result[w].clinicID = result[o].clinicID
        /\ NormalizeCPF(result[w].input.tax_id_number)
                = NormalizeCPF(result[o].input.tax_id_number)
        /\ \A seed \in Seeds :
                LivePeople(seed.db, NormalizeCPF(result[w].input.tax_id_number)) = {}
        /\ result[w].err = NULL /\ result[w].created
        /\ result[o].err = PgInFailedTransaction
        /\ Cardinality(LivePeople(db, NormalizeCPF(result[w].input.tax_id_number))) = 1

RereadPcs ==
    {"CreateOrAttachDentist_RereadPerson", "CreateOrAttachDentist_RereadDentist",
     "CreateOrAttachDentist_RereadClinicDentist"}

\* C4: a CreateOrAttachDentist call whose insert hit a uniqueness violation
\* re-reads the existing row in the same transaction and goes on; the re-read
\* never ends the call with an error.
C4_LostRaceNeverSurfaces ==
    [][\A w \in Workers :
        (frame[w].pc \in RereadPcs /\ frame'[w].pc = "idle") =>
            result'[w].err = NULL]_vars

\* C5: in every reachable state there is at most one Affiliation row with end
\* time unset for each (clinic, dentist) pair.
C5_OneActiveAffiliation ==
    \A k1 \in DOMAIN db.clinic_dentists, k2 \in DOMAIN db.clinic_dentists :
        ( /\ db.clinic_dentists[k1].clinic_id = db.clinic_dentists[k2].clinic_id
          /\ db.clinic_dentists[k1].dentist_id = db.clinic_dentists[k2].dentist_id
          /\ db.clinic_dentists[k1].ended_at = Nil
          /\ db.clinic_dentists[k2].ended_at = Nil ) => k1 = k2

\* A pair was unlinked and attached again: it has an ended row and an active one.
C5_Witness ==
    \E k1 \in DOMAIN db.clinic_dentists, k2 \in DOMAIN db.clinic_dentists :
        /\ db.clinic_dentists[k1].clinic_id = db.clinic_dentists[k2].clinic_id
        /\ db.clinic_dentists[k1].dentist_id = db.clinic_dentists[k2].dentist_id
        /\ db.clinic_dentists[k1].ended_at # Nil
        /\ db.clinic_dentists[k2].ended_at = Nil

\* An UpdateClinic call between BeginTx and its commit or rollback.
UpdateClinic_InTx(w) == frame[w].op = "UpdateClinic" /\ tx[w].status # "none"
Returns(w) == frame[w].pc # "idle" /\ frame'[w].pc = "idle"

\* C6: an UpdateClinic request that adds no accounts and removes every active
\* bank account of the clinic changes nothing in the committed state (bank
\* accounts and Person fields included) and returns Validation.
C6_RemovesAll(w) ==
    /\ UpdateClinic_InTx(w)
    /\ frame[w].clinicID \in LiveClinics(db)
    /\ RemoveOnly([frame[w].input EXCEPT !.legal_name = NULL, !.trade_name = NULL,
                                         !.email = NULL, !.phone = NULL])
    /\ RemoveList(frame[w].input) = LiveAccounts(db, frame[w].clinicID)
    /\ Len(frame[w].input.bank_account_ids_to_remove.value)
            = Cardinality(LiveAccounts(db, frame[w].clinicID))

C6_RemoveAllIsRefused ==
    [][\A w \in Workers :
        C6_RemovesAll(w) =>
            /\ db' = db
            /\ Returns(w) => result'[w].err = ErrValidation]_vars

\* A request that patched the Person and removed both accounts of a clinic
\* was refused with Validation; both accounts are still active.
C6_Witness ==
    \E w \in Workers :
        /\ result[w].op = "UpdateClinic"
        /\ result[w].err = ErrValidation
        /\ result[w].clinicID \in LiveClinics(db)
        /\ HasPersonFields(result[w].input)
        /\ ~result[w].input.bank_accounts.valid
        /\ result[w].input.bank_account_ids_to_remove.valid
        /\ Len(result[w].input.bank_account_ids_to_remove.value) = 2
        /\ RemoveList(result[w].input) = LiveAccounts(db, result[w].clinicID)
        /\ Cardinality(LiveAccounts(db, result[w].clinicID)) = 2

\* C7: an UpdateClinic request that adds one bank account and removes the
\* clinic's only active account is not refused: its transaction ends in a
\* commit after which the clinic's active accounts are exactly the added one,
\* and the call returns without error.
C7_Swaps(w) ==
    /\ UpdateClinic_InTx(w)
    /\ frame[w].clinicID \in LiveClinics(db)
    /\ frame[w].input.bank_accounts.valid
    /\ Len(frame[w].input.bank_accounts.value) = 1
    /\ frame[w].input.bank_account_ids_to_remove.valid
    /\ Len(frame[w].input.bank_account_ids_to_remove.value) = 1
    /\ RemoveList(frame[w].input) = LiveAccounts(db, frame[w].clinicID)

C7_NetEffectIsAccepted ==
    [][\A w \in Workers :
        /\ C7_Swaps(w) =>
            /\ ~Returns(w)
            /\ db' # db =>
                /\ LiveAccounts(db', frame[w].clinicID)
                        = DOMAIN db'.bank_accounts \ DOMAIN db.bank_accounts
                /\ Cardinality(LiveAccounts(db', frame[w].clinicID)) = 1
        /\ (frame[w].op = "UpdateClinic" /\ tx[w].status = "none" /\ Returns(w)) =>
                result'[w].err = NULL]_vars

\* A request that added one account and removed one has returned without
\* error; the clinic has two accounts, the removed one and an active one.
C7_Witness ==
    \E w \in Workers :
        /\ result[w].op = "UpdateClinic"
        /\ result[w].err = NULL
        /\ result[w].input.bank_accounts.valid
        /\ Len(result[w].input.bank_accounts.value) = 1
        /\ result[w].input.bank_account_ids_to_remove.valid
        /\ Len(result[w].input.bank_account_ids_to_remove.value) = 1
        /\ RemovedAccounts(db, result[w].clinicID) = RemoveList(result[w].input)
        /\ Cardinality(LiveAccounts(db, result[w].clinicID)) = 1

\* C8: an UpdateClinic request whose bank_account_ids_to_remove has an id
\* that is not an active account of the clinic (unknown, already removed, of
\* another clinic) or has an id twice changes nothing in the committed state
\* and returns NotFound.
C8_Offending(w) ==
    LET l == frame[w].input.bank_account_ids_to_remove.value
    IN  /\ UpdateClinic_InTx(w)
        /\ frame[w].input.bank_account_ids_to_remove.valid
        /\ \E i \in DOMAIN l :
            \/ l[i] \notin LiveAccounts(db, frame[w].clinicID)
            \/ \E j \in DOMAIN l : j # i /\ l[j] = l[i]

C8_BadRemovalIsNotFound ==
    [][\A w \in Workers :
        C8_Offending(w) =>
            /\ db' = db
            /\ Returns(w) => result'[w].err = ErrNotFound]_vars

\* A request with a Person patch, an added account and a removal list that
\* names an active account of the clinic twice has returned NotFound.
C8_Witness ==
    \E w \in Workers :
        /\ result[w].op = "UpdateClinic"
        /\ result[w].err = ErrNotFound
        /\ result[w].clinicID \in LiveClinics(db)
        /\ HasPersonFields(result[w].input)
        /\ result[w].input.bank_accounts.valid
        /\ result[w].input.bank_account_ids_to_remove.valid
        /\ Len(result[w].input.bank_account_ids_to_remove.value) = 2
        /\ result[w].input.bank_account_ids_to_remove.value[1]
                \in LiveAccounts(db, result[w].clinicID)
        /\ result[w].input.bank_account_ids_to_remove.value[2]
                = result[w].input.bank_account_ids_to_remove.value[1]

\* The role flag a stored row ends up with when the caller supplied
\* `flag` (or did not) and only supplied flags are written.
SuppliedOr(flag, stored) == IF flag.valid THEN flag.value ELSE stored

\* C9: a CreateOrAttachDentist call that finds an active Affiliation for
\* (clinic, dentist) returns created = false and writes only the role flags
\* its request supplied; a flag the request left out keeps its stored value.
C9_OnlySuppliedFlagsChange ==
    [][\A w \in Workers :
        CreateOrAttachDentist_Commits(w) =>
            \A k \in ActiveAffiliations(db, frame[w].clinicID, frame[w].dentistID) :
                /\ ~result'[w].created
                /\ k \in DOMAIN db'.clinic_dentists
                /\ db'.clinic_dentists[k].is_admin
                    = SuppliedOr(frame[w].input.is_admin, db.clinic_dentists[k].is_admin)
                /\ db'.clinic_dentists[k].is_legal_representative
                    = SuppliedOr(frame[w].input.is_legal_representative,
                                 db.clinic_dentists[k].is_legal_representative)]_vars

\* C10: a CreateOrAttachDentist call that commits with no active Affiliation
\* for (clinic, dentist) before it inserts the row and returns created =
\* true; one that commits with an active Affiliation before it (a second call
\* for the same clinic and tax id) returns created = false and its own
\* request's role flags, and leaves that row the only active one, its start
\* time unchanged. So created is true only for the call that inserted the row.
C10_SecondCallUpdatesInPlace ==
    [][\A w \in Workers :
        CreateOrAttachDentist_Commits(w) =>
            LET before == ActiveAffiliations(db, frame[w].clinicID, frame[w].dentistID)
                after == ActiveAffiliations(db', frame[w].clinicID, frame[w].dentistID)
                bound == BindCreateDentistInput(frame[w].input)
            IN  /\ result'[w].err = NULL
                /\ Cardinality(after) = 1
                /\ result'[w].created <=> before = {}
                /\ result'[w].created => after \cap DOMAIN db.clinic_dentists = {}
                /\ result'[w].out.is_admin = bound.is_admin
                /\ result'[w].out.is_legal_representative = bound.is_legal_representative
                /\ \A k \in after :
                    /\ db'.clinic_dentists[k].is_admin = bound.is_admin
                    /\ db'.clinic_dentists[k].is_legal_representative
                            = bound.is_legal_representative
                    /\ db'.clinic_dentists[k].started_at = result'[w].out.started_at
                /\ before # {} =>
                    /\ after = before
                    /\ \A k \in before :
                        db'.clinic_dentists[k].started_at = db.clinic_dentists[k].started_at]_vars

\* The second of two calls for one clinic and one tax id is about to commit:
\* the dentist is one the first call created, the Affiliation the first call
\* inserted is committed, and the second call has written other role flags to it.
C10_Witness ==
    \E w \in Workers :
        /\ frame[w].pc = "CreateOrAttachDentist_Commit"
        /\ ~frame[w].created
        /\ \A seed \in Seeds : frame[w].dentistID \notin DOMAIN seed.db.dentists
        /\ \E k \in ActiveAffiliations(db, frame[w].clinicID, frame[w].dentistID) :
            /\ db.clinic_dentists[k].started_at = frame[w].relation.started_at
            /\ db.clinic_dentists[k].is_admin # frame[w].relation.is_admin
            /\ db.clinic_dentists[k].is_legal_representative
                    # frame[w].relation.is_legal_representative

\* The active Affiliations of a dentist, and the ended ones, read off the columns.
ActiveAffiliationsOf(d, dentistID) ==
    {k \in DOMAIN d.clinic_dentists :
        /\ d.clinic_dentists[k].dentist_id = dentistID
        /\ d.clinic_dentists[k].ended_at = Nil}
EndedAffiliationsOf(d, dentistID) ==
    {k \in DOMAIN d.clinic_dentists :
        /\ d.clinic_dentists[k].dentist_id = dentistID
        /\ d.clinic_dentists[k].ended_at # Nil}
Unlinking(w) == frame[w].op = "UnlinkDentistFromClinic"

\* C11: UnlinkDentistFromClinic for a dentist whose only active Affiliation
\* is the one with the named clinic changes nothing and returns Conflict; for
\* a dentist with exactly two active Affiliations, one of them with the named
\* clinic, it returns without error having ended that one only, and the
\* dentist is left with exactly one active Affiliation.
C11_LastAffiliationStays ==
    [][\A w \in Workers :
        LET c == frame[w].clinicID
            d == frame[w].dentistID
            named == ActiveAffiliations(db, c, d)
            all == ActiveAffiliationsOf(db, d)
        IN  (Unlinking(w) /\ named # {}) =>
                /\ Cardinality(all) = 1 =>
                        /\ db' = db
                        /\ Returns(w) => result'[w].err = ErrConflict
                /\ Cardinality(all) = 2 =>
                        /\ Returns(w) =>
                            /\ result'[w].err = NULL
                            /\ ActiveAffiliationsOf(db', d) = all \ named
                            /\ Cardinality(ActiveAffiliationsOf(db', d)) = 1
                            /\ DOMAIN db'.clinic_dentists = DOMAIN db.clinic_dentists
                            /\ \A k \in DOMAIN db.clinic_dentists \ named :
                                    db'.clinic_dentists[k] = db.clinic_dentists[k]
                        /\ ~Returns(w) => db' = db]_vars

\* A dentist was unlinked from one of two clinics, and the next call, for the
\* clinic that is left, has returned Conflict.
C11_Witness ==
    \E w \in Workers, d \in DOMAIN db.dentists :
        /\ result[w].op = "UnlinkDentistFromClinic"
        /\ result[w].err = ErrConflict
        /\ EndedAffiliationsOf(db, d) # {}
        /\ Cardinality(ActiveAffiliationsOf(db, d)) = 1
        /\ \A k \in ActiveAffiliationsOf(db, d) :
                db.clinic_dentists[k].clinic_id = result[w].clinicID

C13_AttachNeedsLiveClinic ==
    [][\A w \in Workers :
        ( /\ frame[w].pc = "CreateOrAttachDentist_GetClinicByID"
          /\ frame'[w] # frame[w]
          /\ frame[w].clinicID \notin LiveClinics(db) ) =>
                /\ Returns(w)
                /\ result'[w].err = ErrNotFound
                /\ db' = db]_vars

\* A call for a soft-deleted clinic has returned NotFound, and there is no
\* Person with the tax id of its request.
C13_Witness ==
    \E w \in Workers :
        /\ result[w].op = "CreateOrAttachDentist"
        /\ result[w].err = ErrNotFound
        /\ result[w].clinicID \in DOMAIN db.clinics
        /\ db.clinics[result[w].clinicID].deleted_at # Nil
        /\ \A k \in DOMAIN db.people :
                db.people[k].tax_id_number # NormalizeCPF(result[w].input.tax_id_number)

\* The non-deleted COMPANY persons with a tax id.
LiveCompanies(d, taxID) ==
    {k \in LivePeople(d, taxID) : d.people[k].person_type = "COMPANY"}

\* C14: CreateOrAttachDentist whose tax id is that of a non-deleted COMPANY
\* Person returns Conflict when it has looked the Person up, and nothing of
\* the committed store (Person fields, Dentist and Affiliation rows) changes.
C14_CompanyTaxIdIsConflict ==
    [][\A w \in Workers :
        ( /\ frame[w].pc = "CreateOrAttachDentist_GetPersonByTaxID"
          /\ frame'[w] # frame[w]
          /\ LiveCompanies(db, frame[w].taxID) # {} ) =>
                /\ Returns(w)
                /\ result'[w].err = ErrConflict
                /\ db' = db]_vars

\* A call with the tax id of a COMPANY Person has returned Conflict; that
\* Person has no Dentist.
C14_Witness ==
    \E w \in Workers :
        /\ result[w].op = "CreateOrAttachDentist"
        /\ result[w].err = ErrConflict
        /\ \E k \in LiveCompanies(db, NormalizeCPF(result[w].input.tax_id_number)) :
                LiveDentists(db, k) = {}

\* The identifiers of a page's items, and those of all pages of the walk in
\* the order received.
ItemIDs(items) == [i \in DOMAIN items |-> items[i].id]
RECURSIVE Visited(_)
Visited(pages) ==
    IF pages = <<>> THEN <<>>
    ELSE Visited(SubSeq(pages, 1, Len(pages) - 1)) \o pages[Len(pages)].ids

\* The non-deleted clinics after a cursor (all of them without cursor), in
\* ascending order.
ClinicsAfter(d, cursor) ==
    SortedSeq({c \in LiveClinics(d) :
        cursor.valid => c > cursor.value.uuid.value.id})

\* C15: with nobody writing, ListClinicsWithCursor(limit, cursor) returns the
\* first min(limit, k) of the k non-deleted clinics after the cursor in
\* ascending id order; nextCursor is present exactly when k > limit and is
\* then the id of the last item returned; and the pages of a walk that follows
\* nextCursor are, one after the other, the non-deleted clinics in ascending
\* order, each once, the walk ending with the page that has no nextCursor.
C15_PagesAreTheClinicsInOrder ==
    [][\A w \in Workers :
        ( /\ Returns(w)
          /\ result'[w].op = "ListClinicsWithCursor"
          /\ result'[w].err = NULL
          /\ result'[w].input.limit \in 1..maxLimit ) =>
            LET limit == result'[w].input.limit
                after == ClinicsAfter(db, result'[w].input.cursor)
                k == Len(after)
                out == result'[w].out
                all == SortedSeq(LiveClinics(db))
                seen == Visited(walk'.pages)
            IN  /\ ItemIDs(out.items) = SubSeq(after, 1, Min(limit, k))
                /\ out.nextCursor.valid <=> k > limit
                /\ k > limit => out.nextCursor = Some(UUIDText(after[limit], 7))
                /\ walk' # walk =>
                    /\ seen = SubSeq(all, 1, Len(seen))
                    /\ walk'.done <=> Len(seen) = Len(all)
                    /\ walk'.done <=> ~out.nextCursor.valid]_vars

\* Three clinics walked with limit 2: a page of two with the second one's
\* id as nextCursor, then a page of one without nextCursor.
C15_Witness ==
    /\ walk.kind = "clinics" /\ walk.limit = 2 /\ walk.done
    /\ Len(walk.pages) = 2
    /\ Len(walk.pages[1].ids) = 2
    /\ walk.pages[1].nextCursor = Some(UUIDText(walk.pages[1].ids[2], 7))
    /\ Len(walk.pages[2].ids) = 1
    /\ ~walk.pages[2].nextCursor.valid
    /\ Visited(walk.pages) = SortedSeq(LiveClinics(db))
    /\ \E w \in Workers : result[w].op = "ListClinicsWithCursor" /\ result[w].err = NULL

\* Client w runs the query of a page of the walk.
FetchesPage(w, pc) ==
    /\ walk.fetching /\ walk.w = w
    /\ frame[w].pc = pc
    /\ frame'[w].pc # pc

\* The identifiers that the pages of the walk and the rows just fetched
\* cover: up to the last row fetched while a next page is announced, all of
\* them once it is not.
Covered(ids, rows, hasNext) ==
    {id \in ids : hasNext => (rows # <<>> /\ id <= rows[Len(rows)])}

\* C16: a page walk over clinics interleaved with CreateClinic never skips a
\* clinic: when a page is fetched, every clinic that is committed and not
\* deleted and lies in the range that this page and the earlier ones cover is
\* on this page or on an earlier one.
C16_WalkSkipsNoClinic ==
    [][\A w \in Workers :
        FetchesPage(w, "ListClinicsWithCursor_ListClinicDetailsCursor") =>
            LET rows == [i \in DOMAIN frame'[w].rows |-> frame'[w].rows[i].clinic_id]
            IN  Covered(LiveClinics(db), rows, frame'[w].hasNext)
                    \subseteq Range(Visited(walk.pages)) \cup Range(rows)]_vars

\* The dentists with an active Affiliation to the clinic, neither they nor
\* their persons deleted.
AttachedDentists(d, clinicID) ==
    {k[2] : k \in {l \in DOMAIN d.clinic_dentists :
        /\ l[1] = clinicID
        /\ d.clinic_dentists[l].ended_at = Nil
        /\ d.dentists[l[2]].deleted_at = Nil
        /\ d.people[d.dentists[l[2]].person_id].deleted_at = Nil}}

\* C17: a page walk over the dentists of a clinic interleaved with
\* CreateOrAttachDentist on that clinic never skips a dentist: when the last
\* page of the walk is fetched, every dentist attached to the clinic by then,
\* also one attached between two fetches whose id is smaller than the cursor,
\* is on that page or on an earlier one.
C17_WalkSkipsNoDentist ==
    [][\A w \in Workers :
        ( /\ FetchesPage(w, "ListClinicDentistsWithCursor_ListDentistsByClinicIDCursor")
          /\ ~result'[w].out.nextCursor.valid ) =>
            AttachedDentists(db, walk.clinicID)
                \subseteq Range(Visited(walk'.pages))]_vars

\* C18: in a page walk of ListClinicsWithCursor or of
\* ListClinicDentistsWithCursor that follows nextCursor, whatever is inserted,
\* updated or soft-deleted in between, the ids returned over the whole walk
\* are strictly increasing, so that no id is on two pages.
C18_WalkIdsIncrease ==
    LET seen == Visited(walk.pages)
    IN  \A i, j \in DOMAIN seen : i < j => seen[i] < seen[j]

\* A dentist walk of two pages with an attachment in between: a dentist of
\* the clinic is on neither page.
C18_Witness ==
    /\ walk.kind = "dentists" /\ walk.done
    /\ Len(walk.pages) = 2
    /\ walk.pages[1].ids # <<>> /\ walk.pages[2].ids # <<>>
    /\ AttachedDentists(db, walk.clinicID) \ Range(Visited(walk.pages)) # {}

\* The list calls: those made on the service, and the HTTP requests.
ServiceListOps == {"ListClinicsWithCursor", "ListClinicDentistsWithCursor"}
HandlerListOps == {"listClinics", "listClinicDentists"}

\* The limit query strings that are left out or blank, and those that are
\* integers from 1 to 100.
OmittedRawLimits == {<<>>, <<" ">>}
ValidRawLimits == {<<"1">>, <<" ", "2">>, <<"1", "0", "0">>}

\* The limit of the request is not an integer from 1 to 100.
BadLimit(op, input) ==
    IF op \in ServiceListOps THEN input.limit \notin 1..maxLimit
    ELSE input.limit \notin OmittedRawLimits \cup ValidRawLimits

\* The call answers a validation failure (the service's Validation, or the
\* handler's 400 for a parameter) and no items.
RefusedAsInvalid(r) ==
    /\ r.err \in {ErrValidation, problemTypeInvalidParam}
    /\ r.out = NULL

\* C19: a pagination request whose limit is outside 1..100 or is no integer
\* fails with Validation and returns no items, the limit is never replaced
\* by another one; a request without limit is served with limit 20.
C19_BadLimitIsRefused ==
    [][\A w \in Workers :
        /\ ( /\ Returns(w)
             /\ result'[w].op \in ServiceListOps \cup HandlerListOps
             /\ BadLimit(result'[w].op, result'[w].input)
             /\ result'[w].err # ErrNotFound ) =>
                RefusedAsInvalid(result'[w])
        /\ ( /\ frame[w].pc = "idle"
             /\ frame'[w].op \in HandlerListOps
             /\ frame'[w].input.limit \in OmittedRawLimits ) =>
                frame'[w].pageLimit = 20]_vars

\* The cursor of the request is present and is no UUID of version 7.
BadCursor(op, input) ==
    IF op \in ServiceListOps
    THEN input.cursor.valid /\ input.cursor.value \in {Text("invalid"), NotV7}
    ELSE input.cursor \in {Text("invalid"), NotV7}

\* The request has no cursor (or, as a query string, a blank one).
NoCursor(op, input) ==
    IF op \in ServiceListOps THEN ~input.cursor.valid
    ELSE input.cursor \in {Text(""), Text("  ")}

\* What the list of the request holds, in ascending order.
Listed(d, op, clinicID) ==
    IF op \in {"ListClinicsWithCursor", "listClinics"} THEN SortedSeq(LiveClinics(d))
    ELSE SortedSeq(AttachedDentists(d, clinicID))

\* C20: a pagination request whose cursor is present and is not a UUID, or is
\* a UUID of another version than 7, fails with Validation, at the HTTP
\* parameter parser and at ListClinicsWithCursor and
\* ListClinicDentistsWithCursor alike; without cursor, or with a blank one,
\* the page returned is the first one.
C20_BadCursorIsRefused ==
    [][\A w \in Workers :
        ( /\ Returns(w)
          /\ result'[w].op \in ServiceListOps \cup HandlerListOps ) =>
            LET r == result'[w]
            IN  /\ (BadCursor(r.op, r.input) /\ r.err # ErrNotFound) => RefusedAsInvalid(r)
                /\ (NoCursor(r.op, r.input) /\ r.err = NULL) =>
                        ItemIDs(r.out.items) =
                            SubSeq(Listed(db, r.op, r.clinicID), 1, Len(r.out.items))]_vars


\* The use-cases that write with more than one statement.
MutatingOps ==
    {"CreateClinic", "UpdateClinic", "DeleteClinic", "CreateOrAttachDentist",
     "UpdateClinicDentistRole", "UnlinkDentistFromClinic", "UpdateDentist", "DeleteDentist"}

\* C21: the mutating use-cases are atomic: a call that returns an error has
\* persisted nothing, neither in the step that returns nor in an earlier step
\* of the same call.
C21_FailedCallPersistsNothing ==
    [][\A w \in Workers :
        ( /\ Returns(w)
          /\ result'[w].op \in MutatingOps
          /\ result'[w].err # NULL ) =>
            /\ ~frame[w].persisted
            /\ db' = db]_vars


\* An email that is given, not blank, and no address.
BadEmail(email) == email # NULL /\ TrimSpace(email) # "" /\ ~ValidateEmail(email)

\* The invalid requests of C22.
InvalidRequest(op, input) ==
    CASE op = "CreateClinic" ->
            \/ ~ValidateCNPJ(NormalizeCNPJ(input.tax_id_number))
            \/ TrimSpace(input.legal_name) = ""
            \/ BadEmail(input.email)
            \/ input.bank_accounts = <<>>
      [] op = "UpdateClinic" ->
            \/ BadEmail(input.email)
            \/ /\ input.bank_account_ids_to_remove.valid
               /\ \E i \in DOMAIN input.bank_account_ids_to_remove.value :
                    ~IsUUIDv7(input.bank_account_ids_to_remove.value[i])
      [] op = "CreateOrAttachDentist" ->
            \/ ~ValidateCPF(NormalizeCPF(input.tax_id_number))
            \/ BadEmail(input.email)
      [] OTHER -> FALSE

\* C22: validation precedes storage: a CreateClinic, UpdateClinic or
\* CreateOrAttachDentist call with an invalid request (bad CNPJ or CPF, blank
\* legal name, bad email, no bank account, a removal id that is no UUIDv7)
\* never gets to a transaction or a statement, and it returns Validation.
C22_ValidationPrecedesStorage ==
    \A w \in Workers :
        /\ frame[w].pc # "idle" => ~InvalidRequest(frame[w].op, frame[w].input)
        /\ tx[w].status # "none" => frame[w].pc # "idle"
        /\ InvalidRequest(result[w].op, result[w].input) =>
                result[w].err = ErrValidation /\ result[w].out = NULL

\* An UpdateClinic naming a removal id that is no UUIDv7 was refused on a
\* store that holds a clinic.
C22_Witness ==
    /\ result[1].op = "UpdateClinic"
    /\ result[1].clinicID \in LiveClinics(db)
    /\ result[1].input.bank_account_ids_to_remove = Some(<<BadID>>)
    /\ result[1].err = ErrValidation
    /\ tx[1] = NoTx


maxLegalNameLength == 255
maxTradeNameLength == 255

\* The request carries a name above its limit.
TooLong(op, input) ==
    CASE op = "CreateClinic" -> CharacterCount(input.legal_name) > maxLegalNameLength
      [] op = "UpdateClinic" ->
            input.trade_name # NULL /\ CharacterCount(input.trade_name) > maxTradeNameLength
      [] OTHER -> FALSE

\* The request is refused for no other reason than a name's length.
OnlyNameGiven(op, input) ==
    CASE op = "CreateClinic" -> input = [CreateClinicBase EXCEPT !.legal_name = Name255]
      [] op = "UpdateClinic" ->
            input = UpdateClinicInput([NoPatch EXCEPT !.trade_name = Name255], Nil, Nil)
      [] OTHER -> FALSE

\* C23: CreateClinic with a legal_name of more than 255 characters and
\* UpdateClinic with a trade_name of more than 255 characters fail with
\* Validation before a transaction is begun; a name of exactly 255
\* characters is not refused as invalid.
C23_LongNamesAreRefused ==
    \A w \in Workers :
        /\ frame[w].pc # "idle" => ~TooLong(frame[w].op, frame[w].input)
        /\ TooLong(result[w].op, result[w].input) =>
                result[w].err = ErrValidation /\ result[w].out = NULL
        /\ OnlyNameGiven(result[w].op, result[w].input) => result[w].err # ErrValidation


\* The errors the store hands to the service.
StorageErrors ==
    {SqlErrNoRows, PgUniqueViolation, PgForeignKeyViolation, PgInFailedTransaction,
     PgDeadlockDetected}

\* C24: the classifier turns a uniqueness violation into Conflict and a
\* foreign-key violation into Validation, returns every other storage error
\* as it is, and never yields NotFound or Unauthorized; so when UpdateDentist's
\* UpdatePerson finds the Person deleted by a concurrent call, the "no rows"
\* error is returned unclassified and answered as an internal failure (500).
C24_StorageErrorsAreClassified ==
    [][ /\ \A e \in StorageErrors :
            /\ e = PgUniqueViolation => mapDatabaseError(e) = ErrConflict
            /\ e = PgForeignKeyViolation => mapDatabaseError(e) = ErrValidation
            /\ e \notin {PgUniqueViolation, PgForeignKeyViolation} => mapDatabaseError(e) = e
            /\ mapDatabaseError(e) \notin {ErrNotFound, ErrUnauthorized}
        /\ \A w \in Workers :
            ( /\ Returns(w)
              /\ frame[w].pc = "UpdateDentist_UpdatePerson"
              /\ frame[w].personID \notin Live("people", db.people) ) =>
                /\ result'[w].err = SqlErrNoRows
                /\ writeError(result'[w].err) = 500
                /\ db' = db ]_vars

\* An UpdateDentist that found its dentist and then lost the Person to a
\* concurrent DeleteDentist has returned the raw "no rows" error.
C24_Witness ==
    \E w \in Workers :
        /\ result[w].op = "UpdateDentist"
        /\ result[w].err = SqlErrNoRows
        /\ \E o \in Workers \ {w} : result[o].op = "DeleteDentist" /\ result[o].err = NULL


\* A CreateClinic request the checks accept, with one bank account.
OneAccountRequest(input) ==
    /\ ~InvalidRequest("CreateClinic", input)
    /\ Len(input.bank_accounts) = 1
    /\ validateBankAccountInput(input.bank_accounts[1])

\* The committed store holds the rows of w's CreateClinic and nothing else: the
\* call ran on an empty store.
OnlyRowsOf(w, d) ==
    /\ DOMAIN d.people = {frame[w].personID}
    /\ DOMAIN d.clinics = {frame[w].clinicID}
    /\ DOMAIN d.dentists = {}
    /\ DOMAIN d.clinic_dentists = {}

\* What the store holds after the call: one COMPANY Person, one Clinic of
\* that Person, and the one bank account of the request, active.
HoldsTheNewClinic(w, d) ==
    /\ d.people[frame[w].personID].person_type = "COMPANY"
    /\ d.people[frame[w].personID].deleted_at = Nil
    /\ d.clinics[frame[w].clinicID] = [person_id |-> frame[w].personID, deleted_at |-> Nil]
    /\ Cardinality(DOMAIN d.bank_accounts) = 1
    /\ \A a \in DOMAIN d.bank_accounts :
            d.bank_accounts[a] = BankAccountRow(frame[w].clinicID, frame[w].input.bank_accounts[1])

\* The Clinic returned, apart from bank accounts.
ReturnsTheNewClinic(w, r) ==
    /\ r.err = NULL
    /\ r.out.id = frame[w].clinicID
    /\ r.out.person_id = frame[w].personID
    /\ r.out.legal_name = TrimSpace(frame[w].input.legal_name)
    /\ r.out.tax_id_number = NormalizeCNPJ(frame[w].input.tax_id_number)
    /\ r.out.dentist_ids = <<>>

\* A CreateClinic with one bank account returns.
CreateClinicReturns(w) ==
    /\ Returns(w)
    /\ result'[w].op = "CreateClinic"
    /\ OneAccountRequest(result'[w].input)

\* C25 as stated: creating a clinic with a valid tax id, a legal name and one
\* bank account in an empty store succeeds and returns a Clinic that carries
\* exactly that one bank account and an empty dentist list; the store then
\* holds one COMPANY Person, one Clinic and one active bank account.
C25_ReturnsTheBankAccount ==
    [][\A w \in Workers :
        CreateClinicReturns(w) =>
            /\ db # EmptyDB
            /\ OnlyRowsOf(w, db') =>
                /\ ReturnsTheNewClinic(w, result'[w])
                /\ HoldsTheNewClinic(w, db')
                /\ "bank_accounts" \in DOMAIN result'[w].out
                /\ Len(result'[w].out.bank_accounts) = 1]_vars

\* C25, amended: the call succeeds and returns the clinic's summary, which has
\* an empty dentist list and no bank accounts in it; the store then holds one
\* COMPANY Person, one Clinic and the one bank account of the request, active.
C25_CreateClinicInEmptyStore ==
    [][\A w \in Workers :
        CreateClinicReturns(w) =>
            /\ db # EmptyDB
            /\ OnlyRowsOf(w, db') =>
                /\ ReturnsTheNewClinic(w, result'[w])
                /\ HoldsTheNewClinic(w, db')
                /\ "bank_accounts" \notin DOMAIN result'[w].out]_vars

\* A clinic with one bank account was created in an empty store.
C25_Witness ==
    /\ frame[1].pc = "idle"
    /\ result[1].op = "CreateClinic"
    /\ result[1].err = NULL
    /\ OneAccountRequest(result[1].input)
    /\ DOMAIN db.clinics = {result[1].out.id}
    /\ DOMAIN db.people = {result[1].out.person_id}
    /\ Cardinality(DOMAIN db.bank_accounts) = 1


\* The soft-delete marker of a row: ended_at of an affiliation, deleted_at of
\* any other row.
Marker(t, r) == IF t = "clinic_dentists" THEN r.ended_at ELSE r.deleted_at

\* C26: no use-case removes a row: in every step the Person, Clinic, Dentist,
\* BankAccount and Affiliation rows of the committed store are kept, and a
\* soft-delete marker (or end time) that is set stays set.
C26_RowsAreNeverRemoved ==
    [][\A t \in Tables :
        /\ DOMAIN db[t] \subseteq DOMAIN db'[t]
        /\ \A k \in DOMAIN db[t] : Marker(t, db[t][k]).valid => Marker(t, db'[t][k]).valid]_vars

\* A clinic was deleted, and later another call committed: the clinic's row,
\* its Person and its ended affiliation are all still there, marked.
C26_Witness ==
    \E w \in Workers, o \in Workers, c \in DOMAIN db.clinics :
        /\ o # w
        /\ result[w].op = "DeleteClinic"
        /\ result[w].err = NULL
        /\ result[w].clinicID = c
        /\ db.clinics[c].deleted_at.valid
        /\ db.people[db.clinics[c].person_id].deleted_at.valid
        /\ \E k \in DOMAIN db.clinic_dentists : k[1] = c /\ db.clinic_dentists[k].ended_at.valid
        /\ result[o].op \in MutatingOps
        /\ result[o].err = NULL


\* The Affiliation rows of a clinic and a dentist, ended ones included.
AffiliationsOf(d, clinicID, dentistID) ==
    {k \in DOMAIN d.clinic_dentists : k[1] = clinicID /\ k[2] = dentistID}

\* w's CreateOrAttachDentist succeeds for a dentist whose affiliations with
\* the clinic have all been ended.
Reattaches(w) ==
    /\ Returns(w)
    /\ result'[w].op = "CreateOrAttachDentist"
    /\ result'[w].err = NULL
    /\ AffiliationsOf(db, frame[w].clinicID, frame[w].dentistID) # {}
    /\ \A k \in AffiliationsOf(db, frame[w].clinicID, frame[w].dentistID) :
            db.clinic_dentists[k].ended_at.valid

\* C27: affiliation history is preserved: no step changes the start time of
\* an Affiliation row or clears (or moves) an end time that is set, and
\* attaching a dentist whose link with the clinic was ended inserts a new
\* active row, with created = true, and leaves the ended rows as they were.
C27_AffiliationHistoryIsKept ==
    [][ /\ \A k \in DOMAIN db.clinic_dentists :
            /\ k \in DOMAIN db'.clinic_dentists
            /\ db'.clinic_dentists[k].started_at = db.clinic_dentists[k].started_at
            /\ db.clinic_dentists[k].ended_at.valid =>
                    db'.clinic_dentists[k].ended_at = db.clinic_dentists[k].ended_at
        /\ \A w \in Workers :
            Reattaches(w) =>
                LET old == AffiliationsOf(db, frame[w].clinicID, frame[w].dentistID)
                    new == AffiliationsOf(db', frame[w].clinicID, frame[w].dentistID) \ old
                IN  /\ result'[w].created
                    /\ Cardinality(new) = 1
                    /\ \A k \in new : db'.clinic_dentists[k].ended_at = Nil
                    /\ \A k \in old : db'.clinic_dentists[k] = db.clinic_dentists[k] ]_vars

\* A dentist unlinked from a clinic was attached to it again: the pair has an
\* ended row and a later active one.
C27_Witness ==
    \E w \in Workers :
        /\ result[w].op = "CreateOrAttachDentist"
        /\ result[w].err = NULL
        /\ result[w].created
        /\ \E k \in DOMAIN db.clinic_dentists, j \in DOMAIN db.clinic_dentists :
            /\ k[1] = result[w].clinicID /\ j[1] = k[1] /\ j[2] = k[2]
            /\ db.clinic_dentists[k].ended_at.valid
            /\ db.clinic_dentists[j].ended_at = Nil
            /\ db.clinic_dentists[j].started_at > db.clinic_dentists[k].started_at


\* w's call of the deleting use-case op returns without error.
DeleteSucceeds(w, op) ==
    /\ Returns(w)
    /\ result'[w].op = op
    /\ result'[w].err = NULL

\* The clinic is soft-deleted with its Person and has no active Affiliation.
ClinicIsDeleted(d, c) ==
    /\ d.clinics[c].deleted_at.valid
    /\ d.people[d.clinics[c].person_id].deleted_at.valid
    /\ \A k \in DOMAIN d.clinic_dentists : k[1] = c => d.clinic_dentists[k].ended_at.valid

\* The dentist is soft-deleted with its Person and has no active Affiliation.
DentistIsDeleted(d, id) ==
    /\ d.dentists[id].deleted_at.valid
    /\ d.people[d.dentists[id].person_id].deleted_at.valid
    /\ \A k \in DOMAIN d.clinic_dentists : k[2] = id => d.clinic_dentists[k].ended_at.valid

\* w's DeleteClinic or DeleteDentist looks its row up and the committed store
\* has no such row, or a soft-deleted one.
LooksUpDeleted(w) ==
    \/ /\ frame[w].pc = "DeleteClinic_GetClinicByID"
       /\ frame[w].clinicID \notin Live("clinics", db.clinics)
    \/ /\ frame[w].pc = "DeleteDentist_GetDentistByID"
       /\ frame[w].dentistID \notin Live("dentists", db.dentists)

\* C28: when DeleteClinic succeeds the clinic and its Person are soft-deleted
\* and no Affiliation of the clinic is active; when DeleteDentist succeeds the
\* dentist and its Person are soft-deleted and no Affiliation of the dentist
\* is active; deleting an id that is absent or already soft-deleted returns
\* NotFound and changes nothing.
C28_DeleteCascades ==
    [][\A w \in Workers :
        /\ DeleteSucceeds(w, "DeleteClinic") => ClinicIsDeleted(db', frame[w].clinicID)
        /\ DeleteSucceeds(w, "DeleteDentist") => DentistIsDeleted(db', frame[w].dentistID)
        /\ (LooksUpDeleted(w) /\ frame'[w] # frame[w]) =>
                /\ Returns(w)
                /\ result'[w].err = ErrNotFound
                /\ db' = db]_vars


\* A clinic with an attached dentist was deleted: the clinic and its Person
\* are marked and the affiliation is ended, all at the transaction's time.
C28_Witness ==
    /\ frame[1].pc = "idle"
    /\ result[1].op = "DeleteClinic"
    /\ result[1].err = NULL
    /\ ClinicIsDeleted(db, result[1].clinicID)
    /\ \E k \in DOMAIN db.clinic_dentists :
        /\ k[1] = result[1].clinicID
        /\ db.clinic_dentists[k].ended_at = db.clinics[k[1]].deleted_at


\* w passes a value through NormalizeCNPJ.
Normalizes(w) ==
    /\ frame[w].op = "NormalizeThenValidate"
    /\ frame'[w].op = "NormalizeThenValidate"
    /\ frame'[w].i = frame[w].i + 1

\* C29: for every valid company tax id, normalization is idempotent and keeps
\* the id valid: normalizing a value that is already normalized returns the
\* same value, and the normalized value of a valid id is valid.
C29_NormalizeCNPJIsIdempotent ==
    [][\A w \in Workers :
        (Normalizes(w) /\ ValidateCNPJ(frame[w].input)) =>
            /\ ValidateCNPJ(frame'[w].taxID)
            /\ frame[w].i > 1 => frame'[w].taxID = frame[w].taxID]_vars

\* A valid alphanumeric CNPJ, written in lower case with punctuation and
\* blanks, was normalized twice and found valid.
C29_Witness ==
    /\ result[1].op = "NormalizeThenValidate"
    /\ result[1].input = Padded(LowerCased(Punctuated(Chars_CNPJ_D)), 1, 1)
    /\ result[1].out = Chars_CNPJ_D
    /\ result[1].err = NULL
    /\ ValidateCNPJ(result[1].input)


\* What a good bearer header is at time now, read off the header: apart from
\* blanks around, it is the word Bearer, a blank, and one token that this
\* service's key signed with an HMAC method, issued by this service for a
\* subject, and now is within the token's lifetime.
NotBlank(piece) == piece # Blank
GoodToken(piece, now) ==
    /\ piece.jwt.valid
    /\ piece.jwt.value.alg \in {"HS256", "HS384", "HS512"}
    /\ piece.jwt.value.key = jwtSigningKey
    /\ piece.jwt.value.iss = jwtIssuer
    /\ piece.jwt.value.sub.text \notin BlankStrings
    /\ piece.jwt.value.nbf <= now
    /\ now < piece.jwt.value.exp
PresentsGoodToken(header, now) ==
    LET ink == SelectSeq(header, NotBlank)
    IN  /\ Len(ink) = 2
        /\ ink[1] = Word("Bearer")
        /\ GoodToken(ink[2], now)
        /\ \E i \in 1..(Len(header) - 1) : header[i] = Word("Bearer") /\ header[i + 1] = Blank

PublicRoutes == {<<"GET", "/api/v1/health">>, <<"POST", "/api/v1/auth/login">>}

\* A request enters the handlers of its route.
Enters(w) == frame[w].pc = "idle" /\ frame'[w].pc # "idle"

\* C30: every route except GET /api/v1/health and POST /api/v1/auth/login is
\* protected. A request to any other route goes through requireAuth first;
\* when its Authorization header is missing, malformed or carries a token
\* that is not valid, requireAuth answers 401 and the request ends there, with
\* the store, the transactions, the identifiers, the clock and the count of
\* use-case calls untouched; a handler of a protected route is only entered
\* from requireAuth with a good token, and a use-case call only starts in
\* such a handler. The two public routes do not pass through requireAuth.
C30_ProtectedRoutesRequireAToken ==
    [][/\ \A w \in Workers :
            /\ Enters(w) =>
                    IF <<frame'[w].input.method, frame'[w].input.path>> \in PublicRoutes
                    THEN frame'[w].pc \in {"health", "login"}
                    ELSE frame'[w].pc = "requireAuth"
            /\ ( /\ frame[w].pc = "requireAuth"
                 /\ ~PresentsGoodToken(frame[w].input.authorization, clock)
                 /\ frame'[w] # frame[w] ) =>
                    /\ frame'[w].pc = "idle"
                    /\ result'[w].input = frame[w].input
                    /\ result'[w].out.status = 401
                    /\ UNCHANGED <<db, tx, nextID, clock, ops, walk>>
            /\ (frame'[w].pc \in ProtectedHandlers /\ frame[w].pc \notin ProtectedHandlers) =>
                    /\ frame[w].pc = "requireAuth"
                    /\ PresentsGoodToken(frame[w].input.authorization, clock)
       /\ (ops' # ops \/ walk'.calls # walk.calls \/ db' # db \/ tx' # tx) =>
            \E w \in Workers :
                frame[w].pc \in ProtectedHandlers
                    \/ frame[w].op \notin ProtectedHandlers \cup {"health", "login", NULL}
      ]_vars

\* DELETE /api/v1/clinics/:id with a token whose lifetime has ended was
\* answered 401, and the two clinics are still there.
C30_Witness ==
    /\ result[1].op = "requireAuth"
    /\ result[1].input.method = "DELETE"
    /\ result[1].input.path = "/api/v1/clinics/:id"
    /\ result[1].input.authorization = Bearer(<<ExpiredAt(clock)>>)
    /\ result[1].out = [status |-> 401, detail |-> "invalid token"]
    /\ db = WithBootstrapUser(SeedTwoClinics.db)
    /\ ops = 0


\* ------------------------------------------------------ EnsureUser, Login

AuthEmails == {"a@acme.io", "A@Acme.io", " A@Acme.io ", "b@acme.io", "acme"}
AuthPasswords == {"password-a", "password-b", "short", "  "}
AuthInputs == {[email |-> e, password |-> p] : e \in AuthEmails, p \in AuthPasswords}

\* The checks of EnsureUser before its query: NULL, or the message.
EnsureUserValidation(input) ==
    IF ~ValidateEmail(ToLower(TrimSpace(input.email))) THEN "invalid email"
    ELSE IF len(input.password) < 8 THEN "password must have at least 8 characters"
    ELSE NULL

EnsureUser_Begin(w, inputs) ==
    /\ Idle(w)
    /\ \E input \in inputs :
        IF EnsureUserValidation(input) # NULL
        THEN ReturnDetail(w, "EnsureUser", input, ErrValidation,
                          EnsureUserValidation(input), NULL)
        ELSE /\ frame' = [frame EXCEPT ![w] =
                    [IdleFrame EXCEPT !.pc = "EnsureUser_GetUserByEmail",
                                      !.op = "EnsureUser", !.input = input]]
             /\ UNCHANGED <<tx, result>>
    /\ ops' = ops + 1
    /\ UNCHANGED <<db, nextID, clock>>
    /\ UNCHANGED walk

\* s.queries.GetUserByEmail, then bcrypt.GenerateFromPassword and newUUIDV7
EnsureUser_GetUserByEmail(w) ==
    LET f == frame[w]
        normalizedEmail == ToLower(TrimSpace(f.input.email))
    IN  /\ f.pc = "EnsureUser_GetUserByEmail"
        /\ IF GetUserByEmail(db.users, normalizedEmail) # {}
           THEN /\ ReturnDetail(w, "EnsureUser", f.input, NULL, NULL, NULL)
                /\ UNCHANGED nextID
           ELSE /\ frame' = [frame EXCEPT ![w].pc = "EnsureUser_CreateUser",
                                          ![w].newID = nextID]
                /\ nextID' = nextID + 1
                /\ UNCHANGED <<tx, result>>
        /\ UNCHANGED <<db, clock, ops>>
        /\ UNCHANGED walk

\* s.queries.CreateUser, outside any transaction: the row is committed by
\* the statement, or the statement fails on idx_users_email_active_unique.
EnsureUser_CreateUser(w) ==
    LET f == frame[w]
        row == UserRow(ToLower(TrimSpace(f.input.email)), f.input.password)
        err == IF UniqueViolation(w, "users", row) THEN PgUniqueViolation ELSE NULL
    IN  /\ f.pc = "EnsureUser_CreateUser"
        /\ IF err # NULL
           THEN /\ ReturnDetail(w, "EnsureUser", f.input,
                                IF isUniqueConstraintError(err) THEN NULL
                                ELSE mapDatabaseError(err),
                                NULL, NULL)
                /\ UNCHANGED db
           ELSE /\ db' = [db EXCEPT !.users = (f.newID :> row) @@ @]
                /\ ReturnDetail(w, "EnsureUser", f.input, NULL, NULL, NULL)
        /\ UNCHANGED <<nextID, clock, ops>>
        /\ UNCHANGED walk

Login_Begin(w, inputs) ==
    /\ Idle(w)
    /\ \E input \in inputs :
        IF LoginValidation(input).failed
        THEN ReturnDetail(w, "Login", input, LoginValidation(input).err,
                          LoginValidation(input).detail, NULL)
        ELSE /\ frame' = [frame EXCEPT ![w] =
                    [IdleFrame EXCEPT !.pc = "Login_GetUserByEmail",
                                      !.op = "Login", !.input = input]]
             /\ UNCHANGED <<tx, result>>
    /\ ops' = ops + 1
    /\ UNCHANGED <<db, nextID, clock>>
    /\ UNCHANGED walk

\* s.queries.GetUserByEmail and what Login does with the row it read.
Login_GetUserByEmail(w) ==
    LET f == frame[w]
        output == Login(db.users, f.input, clock)
    IN  /\ f.pc = "Login_GetUserByEmail"
        /\ ReturnDetail(w, "Login", f.input, output.err, output.detail, output.out)
        /\ UNCHANGED <<db, nextID, clock, ops>>
        /\ UNCHANGED walk

\* The users the service is started on: none, the bootstrap user, and a
\* user that was soft-deleted by hand.
SeedUsers ==
    {EmptyDB,
     WithBootstrapUser(EmptyDB),
     [EmptyDB EXCEPT !.users = BootstrapUser.id :>
        [UserRow(BootstrapUser.email, BootstrapUser.password) EXCEPT !.deleted_at = Some(1)]]}

InitAuth ==
    /\ db \in SeedUsers
    /\ nextID = BootstrapUser.id + 1
    /\ clock = 1
    /\ tx = [w \in Workers |-> NoTx]
    /\ frame = [w \in Workers |-> IdleFrame]
    /\ result = [w \in Workers |-> NoResult]
    /\ ops = 0
    /\ walk = NoWalk

NextAuth ==
    \/ \E w \in Workers : EnsureUser_Begin(w, AuthInputs)
    \/ \E w \in Workers : EnsureUser_GetUserByEmail(w)
    \/ \E w \in Workers : EnsureUser_CreateUser(w)
    \/ \E w \in Workers : Login_Begin(w, AuthInputs)
    \/ \E w \in Workers : Login_GetUserByEmail(w)

SpecAuth == InitAuth /\ [][NextAuth]_vars


\* ------------------------------------------------------------ claims: C31

\* The active users stored under an email, compared without case.
ActiveUsers(users, email) ==
    {k \in DOMAIN users :
        ToLower(users[k].email) = ToLower(TrimSpace(email)) /\ users[k].deleted_at = Nil}

\* What a caller of Login can read of a refused login.
Refusal(r) == [err |-> r.err, detail |-> r.detail, out |-> r.out]

\* C31: a Login that passed the input checks, with an email that has no
\* active user or with the email of an active user and another password than
\* the one stored, returns Unauthorized with the one message "invalid
\* credentials" and no output: what the caller reads is the same in both
\* cases. A token is only returned for the email of an active user with the
\* password stored for it.
C31_RefusedLoginsLookAlike ==
    [][\A w \in Workers :
        (frame[w].pc = "Login_GetUserByEmail" /\ frame'[w].pc = "idle") =>
            LET input == frame[w].input
                active == ActiveUsers(db.users, input.email)
                known == active # {}
                right == \E k \in active : db.users[k].password_hash.bcrypt = input.password
            IN  /\ result'[w].op = "Login"
                /\ (~known \/ ~right) =>
                        Refusal(result'[w]) =
                            [err |-> ErrUnauthorized, detail |-> "invalid credentials",
                             out |-> NULL]
                /\ (known /\ right) =>
                        /\ result'[w].err = NULL
                        /\ result'[w].out.access_token = Login_SignedString(
                                CHOOSE k \in active : TRUE, clock)
      ]_vars

\* One caller logged in with an email nobody has, the other with the email
\* of the stored user and a wrong password; both read the same refusal.
C31_Witness ==
    /\ ActiveUsers(db.users, "a@acme.io") # {}
    /\ ActiveUsers(db.users, "b@acme.io") = {}
    /\ result[1].op = "Login"
    /\ result[1].input = [email |-> "b@acme.io", password |-> "password-a"]
    /\ result[2].op = "Login"
    /\ result[2].input = [email |-> "A@Acme.io", password |-> "password-b"]
    /\ result[1].err = ErrUnauthorized
    /\ Refusal(result[1]) = Refusal(result[2])


\* ------------------------------------------------------------ claims: C32

\* EnsureUser of w returns in this step.
EnsureUserReturns(w) ==
    /\ frame[w].pc \in {"EnsureUser_GetUserByEmail", "EnsureUser_CreateUser"}
    /\ frame'[w].pc = "idle"

\* C32: EnsureUser is idempotent and tolerates a race. A call whose input
\* passed the checks returns no error, whether it found an active user with
\* the lower-cased email, inserted one, or lost the insert to a concurrent
\* call (unique violation); when it returns exactly one active user has that
\* email. No call changes or removes a row that is stored (the existing
\* password hash stays), a row is only added by a call that saw no active
\* user with the email, and the row added holds the lower-cased email and
\* the hash of the password of that call. At no time do two active users
\* share an email.
C32_EnsureUserIsIdempotent ==
    [][/\ \A w \in Workers :
            EnsureUserReturns(w) =>
                /\ result'[w].op = "EnsureUser"
                /\ result'[w].err = NULL
                /\ Cardinality(ActiveUsers(db'.users, frame[w].input.email)) = 1
       /\ \A k \in DOMAIN db.users :
            k \in DOMAIN db'.users /\ db'.users[k] = db.users[k]
       /\ \A k \in DOMAIN db'.users \ DOMAIN db.users :
            \E w \in Workers :
                /\ frame[w].pc = "EnsureUser_CreateUser"
                /\ ActiveUsers(db.users, frame[w].input.email) = {}
                /\ db'.users[k] =
                        [email |-> ToLower(TrimSpace(frame[w].input.email)),
                         password_hash |-> [bcrypt |-> frame[w].input.password],
                         deleted_at |-> Nil]
       /\ \A e \in AuthEmails : Cardinality(ActiveUsers(db'.users, e)) <= 1
      ]_vars

\* Two concurrent calls for one email, written in two ways and with two
\* passwords, both read no user and generated an id; one inserted, the other
\* lost the insert; both returned no error and one user is stored.
C32_Witness ==
    /\ result[1].op = "EnsureUser" /\ result[2].op = "EnsureUser"
    /\ result[1].input = [email |-> "a@acme.io", password |-> "password-a"]
    /\ result[2].input = [email |-> " A@Acme.io ", password |-> "password-b"]
    /\ result[1].err = NULL /\ result[2].err = NULL
    /\ nextID = BootstrapUser.id + 3
    /\ DOMAIN db.users = {BootstrapUser.id + 2}
    /\ db.users[BootstrapUser.id + 2].password_hash = [bcrypt |-> "password-a"]


\* ------------------------------------------------------------ claims: C33

\* w holds the exclusive row lock (FOR UPDATE) on the clinic of its call.
HoldsClinicLock(w) == <<"clinics", frame[w].clinicID, "for update">> \in tx[w].locks

\* C33: DeleteClinic reads the clinic, takes the exclusive row lock on it,
\* ends its active affiliations, soft-deletes its bank accounts, the clinic
\* and its Person, in this order: no statement of DeleteClinic writes a row
\* before the clinic row is locked, and when DeleteClinic commits no bank
\* account of the clinic is left active.
C33_DeleteClinicLocksThenDeletes ==
    [][\A w \in Workers :
        frame[w].op = "DeleteClinic" =>
            /\ (tx'[w].status = "open" /\ tx'[w].writes # tx[w].writes) => HoldsClinicLock(w)
            /\ (frame[w].pc = "DeleteClinic_Commit" /\ frame'[w].pc = "idle") =>
                    \A k \in DOMAIN db'.bank_accounts :
                        db'.bank_accounts[k].clinic_id = frame[w].clinicID =>
                            db'.bank_accounts[k].deleted_at # Nil
      ]_vars


\* ------------------------------------------------------------ claims: C34

\* C34: in an UpdateClinic transaction whose request removes bank accounts,
\* the exclusive row lock on the clinic is held before any statement of the
\* transaction writes a row: before the Person update and before any insert
\* or soft-delete of a bank account.
C34_LockPrecedesEveryWrite ==
    [][\A w \in Workers :
        ( /\ frame[w].op = "UpdateClinic"
          /\ frame[w].input.bank_account_ids_to_remove.valid
          /\ tx'[w].status = "open"
          /\ tx'[w].writes # tx[w].writes ) => HoldsClinicLock(w)
      ]_vars


\* ------------------------------------------------- UpdateClinic, DeleteClinic

\* Requests that change the Person or add an account, and remove an account.
UpdateClinicAndRemove ==
    {UpdateClinicInput(patch, accounts, Some(<<id>>)) :
        patch \in {NoPatch, Patch1}, accounts \in {Nil, Some(<<Acc2>>)},
        id \in DOMAIN db.bank_accounts}

\* A call of w goes on: every step but the start of a call.
Continue(w) ==
    \/ loadClinicSummary_GetClinicDetails(w)
    \/ loadClinicSummary_ListDentistsByClinicID(w)
    \/ UpdateClinic_GetClinicByID(w)
    \/ UpdateClinic_UpdatePerson(w)
    \/ UpdateClinic_CreateBankAccount(w)
    \/ UpdateClinic_lockClinicForUpdate(w)
    \/ UpdateClinic_DeleteBankAccount(w)
    \/ UpdateClinic_ListBankAccountsByClinicID(w)
    \/ UpdateClinic_Commit(w)
    \/ DeleteClinic_GetClinicByID(w)
    \/ DeleteClinic_EndClinicDentistsByClinic(w)
    \/ DeleteClinic_DeleteClinic(w)
    \/ DeleteClinic_DeletePerson(w)
    \/ DeleteClinic_Commit(w)
    \/ Block(w)
    \/ DeadlockDetected(w)

\* Two clients updating and deleting clinics concurrently.
NextLockOrder ==
    \E w \in Workers :
        \/ UpdateClinic_Begin(w, UpdateClinicAndRemove)
        \/ DeleteClinic_Begin(w)
        \/ Continue(w)

SpecLockOrder == Init /\ [][NextLockOrder]_vars

\* Every call that has started is scheduled, a statement that can run does
\* run, and the deadlock detector of the store fires on a wait cycle.
SpecLockOrderFair == SpecLockOrder /\ \A w \in Workers : WF_vars(Continue(w))

\* ------------------------------------------------------------ claims: C35

\* C35: no interleaving of concurrent use-case transactions reaches a
\* deadlock: at no time does a transaction wait, directly or through
\* others, for a row lock held by a transaction that waits for it. In
\* particular UpdateClinic (Person row, then clinic row) and DeleteClinic
\* (clinic row, then Person row) never wait for each other.
C35_NoDeadlock == \A w \in Workers : ~InWaitCycle(w)

\* The transactions of an UpdateClinic and of a DeleteClinic wait for each
\* other.
C35_UpdateAndDeleteWaitForEachOther ==
    /\ frame[1].op = "UpdateClinic" /\ frame[2].op = "DeleteClinic"
    /\ InWaitCycle(1) /\ InWaitCycle(2)

\* The second half of C35: every call that has started returns.
C35_EveryCallReturns ==
    \A w \in Workers : (frame[w].pc # "idle") ~> (frame[w].pc = "idle")


\* ------------------------------------------------- cancelled request context

ContextCanceled == "context canceled"

\* The context of the request is cancelled or its deadline passes while the
\* call is inside its transaction: the statement in progress, or the next
\* one, or tx.Commit, returns the context's error, the use-case returns it
\* and the deferred tx.Rollback() runs.
ContextDone(w) ==
    /\ frame[w].pc # "idle"
    /\ tx[w].status # "none"
    /\ Return(w, mapDatabaseError(ContextCanceled), FALSE, NULL)
    /\ UNCHANGED <<db, nextID, clock, ops>>
    /\ UNCHANGED walk

\* Two clients calling concurrently, whose requests may be cancelled.
NextCancel ==
    \/ Next
    \/ \E w \in Workers : ContextDone(w)

SpecCancel == Init /\ [][NextCancel]_vars

\* ------------------------------------------------------------ claims: C36

CommitSteps ==
    {"CreateClinic_Commit", "UpdateClinic_Commit", "DeleteClinic_Commit",
     "CreateOrAttachDentist_Commit", "DeleteDentist_Commit"}

\* C36: every transactional use-case ends its transaction on every exit
\* path. A transaction ends either at tx.Commit, which makes exactly its
\* writes the committed rows, or with a rollback that leaves the committed
\* rows as they were; either way nothing of it is left: no status, no
\* pending write, no row lock. A call that returns, for a validation or
\* domain error, a storage error, a deadlock or a cancelled context, has no
\* transaction any more, and a transaction is only open while its call runs.
C36_EveryExitEndsTheTransaction ==
    [][\A w \in Workers :
        /\ (tx[w].status # "none" /\ tx'[w].status = "none") =>
                /\ tx'[w] = NoTx
                /\ IF frame[w].pc \in CommitSteps /\ ~(frame'[w].pc = "idle" /\ result'[w].err # NULL)
                   THEN db' = [t \in Tables |-> tx[w].writes[t] @@ db[t]]
                   ELSE db' = db
        /\ (frame[w].pc # "idle" /\ frame'[w].pc = "idle") =>
                /\ tx'[w] = NoTx
                /\ \A o \in Workers \ {w} : w \notin BlockedOn(o)'
        /\ tx'[w].status = "none" => tx'[w].locks = {} /\ tx'[w].writes = EmptyDB
        /\ tx'[w].status # "none" => frame'[w].pc # "idle"
      ]_vars

\* One call was cancelled inside its transaction; the other, an UpdateClinic
\* that removed the only bank account of the clinic under the row lock, was
\* refused at the count. Neither holds a transaction and the accounts stored
\* are all active.
C36_Witness ==
    /\ result[1].err = ContextCanceled
    /\ result[2].op = "UpdateClinic"
    /\ result[2].err = ErrValidation
    /\ result[2].input.bank_account_ids_to_remove.valid
    /\ tx = [w \in Workers |-> NoTx]
    /\ \A k \in DOMAIN db.bank_accounts : db.bank_accounts[k].deleted_at = Nil
    /\ \A w \in Workers : frame[w].pc = "idle"


\* ------------------------------------------------- concurrent unlink calls

\* Two clients unlinking dentists from clinics concurrently.
NextUnlink ==
    \E w \in Workers :
        \/ UnlinkDentistFromClinic_Begin(w)
        \/ UnlinkDentistFromClinic_GetActiveClinicDentist(w)
        \/ UnlinkDentistFromClinic_CountActiveClinicLinksByDentist(w)
        \/ UnlinkDentistFromClinic_EndClinicDentist(w)

SpecUnlink == Init /\ [][NextUnlink]_vars

\* ------------------------------------------------------------ claims: C37

\* C37: under any interleaving of concurrent UnlinkDentistFromClinic calls,
\* a dentist that is not deleted and has an active Affiliation keeps at
\* least one: no step of an unlink call leaves such a dentist without an
\* active Affiliation, so two concurrent unlinks of a dentist's only two
\* Affiliations cannot both succeed.
C37_UnlinkKeepsOneAffiliation ==
    [][\A d \in DOMAIN db.dentists :
        ( /\ db.dentists[d].deleted_at = Nil
          /\ ActiveAffiliationsOf(db, d) # {}
          /\ \E w \in Workers : Unlinking(w) ) =>
            ActiveAffiliationsOf(db', d) # {}
      ]_vars


\* ------------------------------------------- attaching while deleting

\* Two clients attaching dentists and deleting clinics and dentists
\* concurrently.
NextAttachDelete ==
    \E w \in Workers :
        \/ CreateOrAttachDentist_Begin(w, CreateDentistSample)
        \/ CreateOrAttachDentist_GetClinicByID(w)
        \/ CreateOrAttachDentist_GetPersonByTaxID(w)
        \/ CreateOrAttachDentist_CreatePerson(w)
        \/ CreateOrAttachDentist_Reread(w)
        \/ CreateOrAttachDentist_UpdatePerson(w)
        \/ CreateOrAttachDentist_GetDentistByPersonID(w)
        \/ CreateOrAttachDentist_CreateDentist(w)
        \/ CreateOrAttachDentist_GetActiveClinicDentist(w)
        \/ CreateOrAttachDentist_CreateClinicDentist(w)
        \/ CreateOrAttachDentist_UpdateClinicDentistRole(w)
        \/ CreateOrAttachDentist_Commit(w)
        \/ DeleteClinic_Begin(w)
        \/ DeleteClinic_GetClinicByID(w)
        \/ DeleteClinic_EndClinicDentistsByClinic(w)
        \/ DeleteClinic_DeleteClinic(w)
        \/ DeleteClinic_DeletePerson(w)
        \/ DeleteClinic_Commit(w)
        \/ DeleteDentist_Begin(w)
        \/ DeleteDentist_GetDentistByID(w)
        \/ DeleteDentist_EndClinicDentistsByDentist(w)
        \/ DeleteDentist_DeleteDentist(w)
        \/ DeleteDentist_DeletePerson(w)
        \/ DeleteDentist_Commit(w)
        \/ Block(w)
        \/ DeadlockDetected(w)

SpecAttachDelete == Init /\ [][NextAttachDelete]_vars

\* ------------------------------------------------------------ claims: C38

\* C38: in every committed state, under any interleaving of
\* CreateOrAttachDentist with DeleteClinic and DeleteDentist, every active
\* Affiliation (ended_at unset) is between a clinic and a dentist that are
\* both stored and not soft-deleted.
C38_ActiveAffiliationsAreLive ==
    \A k \in DOMAIN db.clinic_dentists :
        db.clinic_dentists[k].ended_at = Nil =>
            /\ k[1] \in DOMAIN db.clinics /\ db.clinics[k[1]].deleted_at = Nil
            /\ k[2] \in DOMAIN db.dentists /\ db.dentists[k[2]].deleted_at = Nil


\* ------------------------------------------------------------ claims: C39

\* w's CreateClinic runs its INSERT into people in this step.
CreatesPerson(w) == frame[w].pc = "CreateClinic_CreatePerson" /\ frame'[w] # frame[w]

\* C39: CreateClinic never reuses or updates a Person. When a Person that is
\* not deleted has the normalized tax id of the request, the INSERT of the
\* Person fails, the call returns Conflict and nothing is persisted (no
\* Person, Clinic or BankAccount row, no pending write). When every Person
\* with that tax id is soft-deleted, or there is none, the call goes on with
\* a new Person row under an identifier no stored Person has, and its commit
\* adds that row and leaves every stored Person row as it was.
C39_CreateClinicNeverReusesAPerson ==
    [][\A w \in Workers :
        LET f == frame[w]
        IN  /\ (CreatesPerson(w) /\ LivePeople(db, f.taxID) # {}) =>
                    /\ Returns(w)
                    /\ result'[w].err = ErrConflict
                    /\ db' = db
                    /\ tx'[w] = NoTx
            /\ (CreatesPerson(w) /\ LivePeople(db, f.taxID) = {}) =>
                    /\ ~Returns(w)
                    /\ f.personID \notin DOMAIN db.people
                    /\ DOMAIN tx'[w].writes.people = {f.personID}
                    /\ tx'[w].writes.people[f.personID].tax_id_number = f.taxID
                    /\ tx'[w].writes.people[f.personID].deleted_at = Nil
            /\ (f.pc = "CreateClinic_Commit" /\ frame'[w] # f) =>
                    /\ DOMAIN db'.people = DOMAIN db.people \cup {f.personID}
                    /\ f.personID \notin DOMAIN db.people
                    /\ \A k \in DOMAIN db.people : db'.people[k] = db.people[k]
                    /\ db'.clinics[f.clinicID].person_id = f.personID
      ]_vars

\* The Person of a deleted clinic is stored soft-deleted, and a CreateClinic
\* with its tax id has returned the new clinic, whose Person is another row
\* with the same tax id.
C39_Witness ==
    \E w \in Workers, old \in DOMAIN db.people, new \in DOMAIN db.people :
        /\ result[w].op = "CreateClinic"
        /\ result[w].err = NULL
        /\ db.people[old].deleted_at # Nil
        /\ db.people[new].deleted_at = Nil
        /\ old # new
        /\ db.people[old].tax_id_number = NormalizeCNPJ(result[w].input.tax_id_number)
        /\ db.people[new].tax_id_number = db.people[old].tax_id_number
        /\ \E c \in DOMAIN db.clinics :
            db.clinics[c].person_id = new /\ db.clinics[c].deleted_at = Nil

=============================================================================
